---- MODULE Spec2Model ----
(***************************************************************************)
(* Model of the Cloudflare email worker: the router (resolveRouteConfig), *)
(* the forwarding handler with its Slack notification task, and the       *)
(* earlier Slack-only handlers kept in the repository.                    *)
(*                                                                         *)
(* JavaScript strings that the code inspects character by character       *)
(* (addresses, routing keys) are sequences of one-character strings.      *)
(* JavaScript values are records tagged by a field "kind".                *)
(***************************************************************************)
EXTENDS Integers, Sequences, FiniteSets, TLC

\* ------------------------------------------------------------------ bounds
\* most entries of a routing table besides what a pool fixes
MaxRoutes == 2
\* most single-character edits applied to the second recipient string
MaxEdits == 2
\* most forward targets of one route
MaxTargets == 2

\* ------------------------------------------------------------- JS values
Undefined == [kind |-> "undefined"]
Null == [kind |-> "null"]
Str(s) == [kind |-> "str", s |-> s]

\* JavaScript truthiness of a modelled value
Truthy(v) ==
    /\ v.kind \notin {"undefined", "null"}
    /\ (v.kind = "str" => v.s # <<>>)

\* a || b
OrElse(a, b) == IF Truthy(a) THEN a ELSE b

\* v.field, undefined when v has no such property
Prop(v, field) == IF field \in DOMAIN v THEN v[field] ELSE Undefined

\* String(v) as a header value or a template substitution renders it
JsString(v) ==
    CASE v.kind = "str" -> v.s
      [] v.kind = "undefined" -> <<"u", "n", "d", "e", "f", "i", "n", "e", "d">>
      [] v.kind = "null" -> <<"n", "u", "l", "l">>
      [] OTHER -> <<"[", "o", "b", "j", "e", "c", "t", "]">>

\* the text of an environment variable holding JSON: whether JSON.parse
\* accepts it, and the value it yields
Json(ok, value) == [kind |-> "json", ok |-> ok, value |-> value]

\* safeJson(str, fallback): str ? JSON.parse(str) : fallback, fallback on a throw
safeJson(str, fallback) ==
    IF ~Truthy(str) THEN fallback
    ELSE IF str.ok THEN str.value
    ELSE fallback

\* ------------------------------------------------------------ characters
Upper == {"A", "B", "C", "D", "F", "K", "L", "M"}
Lower == {"a", "b", "c", "d", "f", "k", "l", "m"}
WhiteSpace == {" ", "\t"}

toLowerCaseChar(c) ==
    CASE c = "A" -> "a"
      [] c = "B" -> "b"
      [] c = "C" -> "c"
      [] c = "D" -> "d"
      [] c = "M" -> "m"
      [] c = "F" -> "f"
      [] c = "K" -> "k"
      [] c = "L" -> "l"
      [] OTHER -> c

toUpperCaseChar(c) ==
    CASE c = "a" -> "A"
      [] c = "b" -> "B"
      [] c = "c" -> "C"
      [] c = "d" -> "D"
      [] c = "m" -> "M"
      [] c = "f" -> "F"
      [] c = "k" -> "K"
      [] c = "l" -> "L"
      [] OTHER -> c

\* String.prototype.toLowerCase
toLowerCase(s) == [i \in 1..Len(s) |-> toLowerCaseChar(s[i])]

\* String.prototype.trim: drop the leading and the trailing white space
RECURSIVE trimStart(_)
trimStart(s) ==
    IF s # <<>> /\ Head(s) \in WhiteSpace THEN trimStart(Tail(s)) ELSE s

RECURSIVE trimEnd(_)
trimEnd(s) ==
    IF s # <<>> /\ s[Len(s)] \in WhiteSpace
    THEN trimEnd(SubSeq(s, 1, Len(s) - 1))
    ELSE s

trim(s) == trimEnd(trimStart(s))

\* ------------------------------------------------------------------ router
normalizeAddressNoLower(address) == trim(address)

\* normalizeAddress: `${address || ""}`.trim().toLowerCase()
normalizeAddress(address) == toLowerCase(trim(address))

\* the reserved key, spelled as the code spells it
FallbackKey == <<"f", "a", "l", "l", "b", "a", "c", "k">>

\* obj[key] on a parsed JSON object: the own property under the exact key
GetKey(obj, key) ==
    IF \E i \in 1..Len(obj.entries) : obj.entries[i].key = key
    THEN obj.entries[CHOOSE i \in 1..Len(obj.entries) : obj.entries[i].key = key].value
    ELSE Undefined

\* routes.fallback
GetFallback(routes) == GetKey(routes, FallbackKey)

\* the same loop without its `continue` for the reserved key
RECURSIVE scanRoutesNoSkip(_, _, _)
scanRoutesNoSkip(entries, normalizedTo, i) ==
    IF i > Len(entries)
    THEN [hit |-> FALSE, value |-> Undefined, compared |-> {}]
    ELSE IF normalizeAddress(entries[i].key) = normalizedTo
    THEN [hit |-> TRUE, value |-> entries[i].value, compared |-> {i}]
    ELSE LET rest == scanRoutesNoSkip(entries, normalizedTo, i + 1)
         IN  [rest EXCEPT !.compared = @ \cup {i}]

\* the for loop of resolveRouteConfig over Object.entries(routes), from entry
\* i on: whether an entry matched, its value, and the entries whose key was
\* compared against the recipient
RECURSIVE scanRoutes(_, _, _)
scanRoutes(entries, normalizedTo, i) ==
    IF i > Len(entries)
    THEN [hit |-> FALSE, value |-> Undefined, compared |-> {}]
    ELSE IF entries[i].key = FallbackKey
    THEN scanRoutes(entries, normalizedTo, i + 1)
    ELSE IF normalizeAddress(entries[i].key) = normalizedTo
    THEN [hit |-> TRUE, value |-> entries[i].value, compared |-> {i}]
    ELSE LET rest == scanRoutes(entries, normalizedTo, i + 1)
         IN  [rest EXCEPT !.compared = @ \cup {i}]

\* resolveRouteConfig(routes, toAddress), with the compared entries beside
\* the returned value
resolveRouteScan(routes, toAddress) ==
    IF ~Truthy(routes) \/ routes.kind # "object"
    THEN [value |-> Null, compared |-> {}]
    ELSE LET s == scanRoutes(routes.entries, normalizeAddress(toAddress), 1)
         IN  IF s.hit
             THEN [value |-> s.value, compared |-> s.compared]
             ELSE [value |-> OrElse(GetFallback(routes), Null),
                   compared |-> s.compared]

resolveRouteConfig(routes, toAddress) == resolveRouteScan(routes, toAddress).value

\* ------------------------------------------------------------- variables
VARIABLES
    \* router: resolveRouteConfig(routes, toAddress) beside the same call on
    \* a second recipient string
    routes,          \* the routing table, safeJson(env.ROUTES_JSON, {})
    toAddress,       \* the recipient string
    toVariant,       \* a string differing from it in case / outer white space
    edits,           \* edits applied to toVariant so far
    rpc,             \* "edit" until resolveRouteConfig has run, then "resolved"
    resolved,        \* the result for toAddress (value, compared entries)
    resolvedVariant  \* the result for toVariant

routerVars == <<routes, toAddress, toVariant, edits, rpc, resolved, resolvedVariant>>

VARIABLES
    \* one inbound event handled by one of the repository's email handlers
    variant,            \* which handler: "forwarder", "strict", "preview", "draft"
    env,                \* the deployment's environment variables
    message,            \* the inbound message: to, from
    fwdOracle,          \* what the receiving system answers to each target
    missPolicy,         \* the routing-miss policy the deployment asks for
    hpc,                \* the handler: "ready", "awaitForward", "returned", "threw"
    routeConfig,        \* the handler's resolved route
    idx,                \* the forward loop's position in forwardToTargets
    hadForwardFailure,  \* the handler's flag of that name
    rejects,            \* the reasons passed to message.setReject, in order
    forwardCalls,       \* the calls of message.forward, in order
    slackCalls,         \* the HTTP requests issued to Slack, in order
    registered,         \* whether ctx.waitUntil was given a task
    tpc,                \* the background task: "none", a stage, "fulfilled", "rejected"
    tlocal              \* the background task's locals: targetId, rawBytes, bodyText

\* what the event is given: never assigned by a handler
inputs == <<variant, env, message, fwdOracle, missPolicy>>

handlerVars ==
    <<inputs, hpc, routeConfig, idx, hadForwardFailure, rejects, forwardCalls,
      slackCalls, registered, tpc, tlocal>>

VARIABLES
    \* one call of a Slack API client (slackApiJson, slackApiForm, slackPost)
    client,      \* which client function is called
    apc,         \* the call: "idle", "fetch", "sleep", "done"
    attempt,     \* the loop variable of that name
    apiLog,      \* the requests, responses and sleeps of the call, in order
    apiResult    \* the value the call returned, or that it raised

apiVars == <<client, apc, attempt, apiLog, apiResult>>

VARIABLES
    \* one call of uploadBytesToSlack(token, channelId, filename, bytes)
    bytes,       \* the payload: a sequence of byte values, or undefined
    channel,     \* channelId, the resolved channel the file is shared to
    upc,         \* the call: "idle", "start", "slot", "transfer", "finalize", "done"
    slot,        \* getUrlRes, the result of phase 1
    upLog,       \* the requests of the call, in order
    upResult     \* the value the call returned, or that it raised

uploadVars == <<bytes, channel, upc, slot, upLog, upResult>>

VARIABLES
    \* resolveSlackTargetId(token, route, {cache, options}) in the events of one
    \* worker instance
    heap,        \* the Map objects allocated so far, each a list of entries
    evs,         \* per event: its stage, its cache, the descriptors it resolves
    rcalls,      \* the Slack API calls of the resolutions, in order
    reads,       \* the cache lookups, in order
    allowCreate  \* options.allowCreatePublicChannels

resolverVars == <<heap, evs, rcalls, reads, allowCreate>>

VARIABLES
    \* the rendering of one message: clampSlackMrkdwn and buildSlackBlocks
    mail,        \* what is rendered: the header values, the body text, the attachments
    rendered     \* bodyPreview and the mrkdwn texts of the blocks, once built

renderVars == <<mail, rendered>>

VARIABLES
    \* one call of getRawEmailBytes(message)
    reader,      \* which copy of the function runs
    rawBody,     \* message.raw
    rdpc,        \* the call: "idle", "start", "read", "fallback", "done"
    rd,          \* the stream not yet delivered, and the locals chunks and total
    rawResult    \* the value the call returned, or that it raised

readerVars == <<reader, rawBody, rdpc, rd, rawResult>>

componentVars == <<resolverVars, renderVars, readerVars>>

clientVars == <<apiVars, uploadVars, componentVars>>

vars == <<routerVars, handlerVars, clientVars>>

\* ----------------------------------------------------------- route values
Array(items) == [kind |-> "array", items |-> items]

\* a route object: {type, slack, forwardTo}
Route(type, slack, forwardTo) ==
    [kind |-> "route", type |-> type, slack |-> slack, forwardTo |-> forwardTo]

Object(entries) == [kind |-> "object", entries |-> entries]

AddrT == <<"t", "@", "x">>
AddrU == <<"u", "@", "x">>
SlackC == <<"C", "1">>
SlackU == <<"U", "1">>
SlackD == <<"D", "1">>

TypeDm == Str(<<"d", "m">>)
TypeChannel == Str(<<"c", "h", "a", "n", "n", "e", "l">>)

RouteTeam == Route(TypeChannel, Str(SlackC), Array(<<AddrT>>))
RouteCeo == Route(TypeDm, Str(SlackU), Array(<<AddrU>>))

\* ------------------------------------------------------ router: the inputs
RouterKeys ==
    { <<"a", "b">>, <<"A", "b", " ">>, FallbackKey,
      <<"F", "a", "l", "l", "b", "a", "c", "k">> }

RouterValues == {RouteTeam, RouteCeo, Null}

RouterRecipients ==
    { <<"a", "b">>, <<"\t", "a", "B">>, <<"c">>, FallbackKey,
      <<"F", "A", "L", "L", "b", "a", "c", "k", " ">> }

\* Object.entries of a parsed JSON object: the keys are distinct
DistinctKeys(entries) ==
    \A i, j \in 1..Len(entries) : entries[i].key = entries[j].key => i = j

RouterTables ==
    { Object(e) : e \in { e \in UNION { [1..n -> [key : RouterKeys, value : RouterValues]]
                                         : n \in 0..MaxRoutes } : DistinctKeys(e) } }
    \cup {Null, Str(<<"a", "b">>)}

RouterIdle ==
    /\ routes = Null
    /\ toAddress = <<>>
    /\ toVariant = <<>>
    /\ edits = 0
    /\ rpc = "idle"
    /\ resolved = Undefined
    /\ resolvedVariant = Undefined

HandlerIdle ==
    /\ variant = "none"
    /\ env = Undefined
    /\ message = Undefined
    /\ fwdOracle = <<>>
    /\ missPolicy = "none"
    /\ hpc = "idle"
    /\ routeConfig = Undefined
    /\ idx = 0
    /\ hadForwardFailure = FALSE
    /\ rejects = <<>>
    /\ forwardCalls = <<>>
    /\ slackCalls = <<>>
    /\ registered = FALSE
    /\ tpc = "none"
    /\ tlocal = Undefined

ApiIdle ==
    /\ client = "none"
    /\ apc = "idle"
    /\ attempt = 0
    /\ apiLog = <<>>
    /\ apiResult = Undefined

UploadIdle ==
    /\ bytes = Undefined
    /\ channel = Undefined
    /\ upc = "idle"
    /\ slot = Undefined
    /\ upLog = <<>>
    /\ upResult = Undefined

ResolverIdle ==
    /\ heap = <<>>
    /\ evs = <<>>
    /\ rcalls = <<>>
    /\ reads = <<>>
    /\ allowCreate = FALSE

RenderIdle ==
    /\ mail = Undefined
    /\ rendered = Undefined

ReaderIdle ==
    /\ reader = "none"
    /\ rawBody = Undefined
    /\ rdpc = "idle"
    /\ rd = Undefined
    /\ rawResult = Undefined

ComponentsIdle == ResolverIdle /\ RenderIdle /\ ReaderIdle

InitRouter ==
    /\ HandlerIdle
    /\ ApiIdle
    /\ UploadIdle
    /\ ComponentsIdle
    /\ routes \in RouterTables
    /\ toAddress \in RouterRecipients
    /\ toVariant = toAddress
    /\ edits = 0
    /\ rpc = "edit"
    /\ resolved = Undefined
    /\ resolvedVariant = Undefined

NotRouter == UNCHANGED <<handlerVars, clientVars>>

Edit(s) ==
    /\ rpc = "edit"
    /\ edits < MaxEdits
    /\ toVariant' = s
    /\ edits' = edits + 1
    /\ UNCHANGED <<routes, toAddress, rpc, resolved, resolvedVariant>>
    /\ NotRouter

\* white space added in front of, or behind, the recipient
PadStart == \E c \in WhiteSpace : Edit(<<c>> \o toVariant)

PadEnd == \E c \in WhiteSpace : Edit(toVariant \o <<c>>)

\* outer white space removed
StripStart ==
    /\ toVariant # <<>>
    /\ Head(toVariant) \in WhiteSpace
    /\ Edit(Tail(toVariant))

StripEnd ==
    /\ toVariant # <<>>
    /\ toVariant[Len(toVariant)] \in WhiteSpace
    /\ Edit(SubSeq(toVariant, 1, Len(toVariant) - 1))

\* the case of one letter changed
SwapCase ==
    \E i \in 1..Len(toVariant) :
        /\ toVariant[i] \in Upper \cup Lower
        /\ Edit([toVariant EXCEPT ![i] =
                    IF @ \in Upper THEN toLowerCaseChar(@) ELSE toUpperCaseChar(@)])

\* resolveRouteConfig(routes, message.to) on either string
Resolve ==
    /\ rpc = "edit"
    /\ rpc' = "resolved"
    /\ resolved' = resolveRouteScan(routes, toAddress)
    /\ resolvedVariant' = resolveRouteScan(routes, toVariant)
    /\ UNCHANGED <<routes, toAddress, toVariant, edits>>
    /\ NotRouter

NextRouter ==
    \/ PadStart
    \/ PadEnd
    \/ StripStart
    \/ StripEnd
    \/ SwapCase
    \/ Resolve

SpecRouter == InitRouter /\ [][NextRouter]_vars

\* the keys of the table that the scan compared against the recipient
ComparedKeys(r) == { routes.entries[i].key : i \in r.compared }

\* no key other than the reserved one normalizes to the recipient
NoKeyMatches(to) ==
    \A i \in 1..Len(routes.entries) :
        routes.entries[i].key # FallbackKey
            => normalizeAddress(routes.entries[i].key) # normalizeAddress(to)

HasFallback == \E i \in 1..Len(routes.entries) : routes.entries[i].key = FallbackKey

\* C1: two recipient strings that differ only in letter case or in leading
\* or trailing white space resolve to the same route, whatever the table.
C1_SameRoute ==
    rpc = "resolved" => resolved.value = resolvedVariant.value

C1_Witness ==
    /\ rpc = "resolved"
    /\ toVariant # toAddress
    /\ toLowerCase(toVariant) # toLowerCase(toAddress)
    /\ trim(toVariant) # trim(toAddress)
    /\ resolved.value = RouteCeo
    /\ GetFallback(routes) # RouteCeo

\* C2: when no key but the reserved one matches the normalized recipient, the
\* result is the entry under "fallback" if there is one and null otherwise,
\* and the reserved key is never among the keys compared with the recipient.
C2_FallbackOrNull ==
    (rpc = "resolved" /\ routes.kind = "object") =>
        /\ FallbackKey \notin ComparedKeys(resolved)
        /\ NoKeyMatches(toAddress) =>
              resolved.value = IF HasFallback THEN GetFallback(routes) ELSE Null

C2_Witness ==
    /\ rpc = "resolved"
    /\ routes.kind = "object"
    /\ NoKeyMatches(toAddress)
    /\ normalizeAddress(toAddress) = FallbackKey
    /\ Len(routes.entries) = 2
    /\ resolved.value = RouteTeam

C2_WitnessNull ==
    /\ rpc = "resolved"
    /\ routes.kind = "object"
    /\ routes.entries # <<>>
    /\ NoKeyMatches(toAddress)
    /\ ~HasFallback
    /\ resolved.value = Null

\* =================================================== the forwarding handler
\* ------------------------------------------------------------ Slack's answers
\* How one fetch to slack.com ends: the transport raises, or a response
\* arrives with an HTTP status class and a body.
\*   ok_true     {"ok":true,"channel":{"id":...}}
\*   ok_bare     {"ok":true}
\*   ok_false    {"ok":false,"error":...}
\*   no_ok       {} (a JSON object without an ok field)
\*   null        the JSON text null
\*   non_json    a body JSON.parse rejects
Bodies == {"ok_true", "ok_bare", "ok_false", "no_ok", "null", "non_json"}

FetchOutcomes ==
    {[net |-> "error"]} \cup [net : {"ok"}, httpOk : BOOLEAN, body : Bodies]

OpenedChannel == <<"D", "9">>

Returned(v) == [threw |-> FALSE, value |-> v]
Threw == [threw |-> TRUE, value |-> Undefined]

Parsed(ok, error, channelId) ==
    [kind |-> "object", ok |-> ok, error |-> error, channelId |-> channelId]

\* JSON.parse(text) for the bodies that parse
parseBody(body) ==
    CASE body = "ok_true" -> Parsed("true", "", Str(OpenedChannel))
      [] body = "ok_bare" -> Parsed("true", "", Undefined)
      [] body = "ok_false" -> Parsed("false", "some_error", Undefined)
      [] body = "no_ok" -> Parsed("undefined", "", Undefined)
      [] OTHER -> Null

\* slackPost(token, endpoint, payload) of the forwarding handler, given how
\* its fetch ends: the value it returns, or that it raises
slackPost(o) ==
    IF o.net = "error" THEN Threw
    ELSE LET parsed == IF o.body = "non_json"
                       THEN Parsed("false", "non_json_response", Undefined)
                       ELSE parseBody(o.body)
         IN  IF o.httpOk THEN Returned(parsed)
             ELSE IF parsed = Null THEN Threw
             ELSE IF parsed.ok # "false"
             THEN Returned([parsed EXCEPT !.ok = "false", !.error = "http_status"])
             ELSE Returned(parsed)

\* what became of reading r.ok on slackPost's result r
ClassOf(r) ==
    IF r.threw \/ r.value = Null THEN "threw"
    ELSE IF r.value.ok = "true" THEN "ok"
    ELSE "not_ok"

\* ------------------------------------------------------------- call records
SlackCall(endpoint, arg) == [endpoint |-> endpoint, arg |-> arg, result |-> "pending"]

Headers(from, replyTo) == [kind |-> "headers", From |-> from, ReplyTo |-> replyTo]

ForwardCall(pos, target, headers) ==
    [pos |-> pos, target |-> target, headers |-> headers, outcome |-> "pending"]

Reason(text) == [text |-> text, rcpt |-> <<>>]

SettleLater(calls, what) == calls

\* the pending call, the last one issued, settles
Settle(calls, what) == [calls EXCEPT ![Len(calls)].outcome = what]

SettleSlack(calls, what) == [calls EXCEPT ![Len(calls)].result = what]

ForwarderKey == <<"f", "o", "r", "w", "a", "r", "d", "e", "r">>

\* safeJson(env.ROUTES_JSON, {})
EnvRoutes == safeJson(env.ROUTES_JSON, Object(<<>>))

\* routes.forwarder
Forwarder == IF EnvRoutes.kind = "object" THEN GetKey(EnvRoutes, ForwarderKey) ELSE Undefined

\* ------------------------------------------------------------- notifySlack
\* resolveSlackTarget up to its first await: the channel it returns at once,
\* or that it goes on to conversations.open
resolveSlackTargetSync(rc) ==
    LET slack == Prop(rc, "slack")
    IN  IF ~Truthy(slack) THEN [await |-> FALSE, value |-> Null]
        ELSE IF Prop(rc, "type") # TypeDm \/ Head(slack.s) = "D"
        THEN [await |-> FALSE, value |-> slack]
        ELSE [await |-> TRUE, value |-> slack]

\* resolveSlackTarget after conversations.open came back as r
resolveSlackTargetOpened(r) ==
    IF ClassOf(r) # "ok" THEN Threw ELSE Returned(r.value.channelId)

notifySlackCatchRejects(rej) == Append(rej, Reason("Slack notification failed"))

\* the catch block of notifySlack, as it acts on the message: it only logs
notifySlackCatch(rej) == rej

\* how the promise notifySlack returned settles, its body having raised or not
notifySlackSettles(threw) == "fulfilled"

\* ------------------------------------------------------------- email()
swappedHeaders(forwarder, from) == Headers(JsString(from), JsString(forwarder))

\* the Headers of the retry: From routes.forwarder, Reply-To message.from
rewrittenHeaders(forwarder, from) == Headers(JsString(forwarder), JsString(from))

onRetryErrorSilent(rej) == rej

\* the inner catch: message.setReject("Unable to forward this email")
onRetryError(rej) == Append(rej, Reason("Unable to forward this email"))

directHeadersPreset == Headers(ForwarderKey, ForwarderKey)

\* message.forward(target): the direct attempt passes no Headers
directHeaders == Undefined

forwardDetached == "returned"

\* await message.forward(...): email() stays at the call until it settles
forwardAwaited == "awaitForward"

\* the answer of the receiving system to the pending call
OracleOutcome(call) ==
    IF call.headers = Undefined
    THEN IF fwdOracle[call.pos] = "ok" THEN "ok" ELSE "rejected"
    ELSE IF fwdOracle[call.pos] = "retry_ok" THEN "ok" ELSE "rejected"

LoopStep(calls, pc, i) == [calls |-> calls, hpc |-> pc, idx |-> i]

retryFailedGoesOn(calls, targets, i) ==
    IF i < Len(targets)
    THEN LoopStep(Append(calls, ForwardCall(i + 1, targets[i + 1], directHeaders)),
                  forwardAwaited, i + 1)
    ELSE LoopStep(calls, "returned", i)

\* the `return;` that follows setReject in the inner catch: the loop is left
retryFailed(calls, targets, i) == LoopStep(calls, "returned", i)

\* email() of the forwarding handler, from its start to its first await
EmailForwarder ==
    /\ variant = "forwarder"
    /\ hpc = "ready"
    /\ LET rc == resolveRouteConfig(EnvRoutes, message.to)
           targets == Prop(rc, "forwardTo")
           notify == Truthy(env.SLACK_BOT_TOKEN) /\ Truthy(Prop(rc, "slack"))
           first == resolveSlackTargetSync(rc)
       IN  /\ routeConfig' = rc
           /\ IF ~Truthy(rc) \/ ~Truthy(targets) \/ Len(targets.items) = 0
              THEN /\ rejects' = Append(rejects, Reason("Unknown address"))
                   /\ hpc' = "returned"
                   /\ UNCHANGED <<idx, forwardCalls, slackCalls, registered, tpc>>
              ELSE /\ IF notify
                      THEN /\ registered' = TRUE
                           /\ IF first.await
                              THEN /\ slackCalls' = Append(slackCalls,
                                        SlackCall("conversations.open", first.value))
                                   /\ tpc' = "open"
                              ELSE /\ slackCalls' = Append(slackCalls,
                                        SlackCall("chat.postMessage", first.value))
                                   /\ tpc' = "post"
                      ELSE UNCHANGED <<registered, slackCalls, tpc>>
                   /\ idx' = 1
                   /\ forwardCalls' = Append(forwardCalls,
                                             ForwardCall(1, targets.items[1], directHeaders))
                   /\ hpc' = forwardAwaited
                   /\ UNCHANGED rejects
    /\ UNCHANGED <<inputs, hadForwardFailure, tlocal>>
    /\ UNCHANGED <<routerVars, clientVars>>

\* the pending message.forward settles and email() runs on to its next await
\* or to its return
ForwardSettles ==
    /\ variant = "forwarder"
    /\ hpc = "awaitForward"
    /\ LET call == forwardCalls[Len(forwardCalls)]
           out == OracleOutcome(call)
           settled == Settle(forwardCalls, out)
           targets == routeConfig.forwardTo.items
       IN  IF out = "ok"
           THEN /\ IF idx < Len(targets)
                   THEN /\ idx' = idx + 1
                        /\ forwardCalls' = Append(settled,
                               ForwardCall(idx + 1, targets[idx + 1], directHeaders))
                        /\ UNCHANGED hpc
                   ELSE /\ forwardCalls' = settled
                        /\ hpc' = "returned"
                        /\ UNCHANGED idx
                /\ UNCHANGED <<hadForwardFailure, rejects>>
           ELSE IF call.headers = Undefined
           THEN /\ hadForwardFailure' = TRUE
                /\ forwardCalls' = Append(settled,
                       ForwardCall(idx, targets[idx],
                                   rewrittenHeaders(Forwarder, Str(message.from))))
                /\ UNCHANGED <<hpc, idx, rejects>>
           ELSE /\ rejects' = onRetryError(rejects)
                /\ \E step \in {retryFailed(settled, targets, idx)} :
                      /\ forwardCalls' = step.calls
                      /\ hpc' = step.hpc
                      /\ idx' = step.idx
                /\ UNCHANGED hadForwardFailure
    /\ UNCHANGED <<inputs, routeConfig, slackCalls, registered, tpc, tlocal>>
    /\ UNCHANGED <<routerVars, clientVars>>

\* conversations.open comes back to resolveSlackTarget inside notifySlack
NotifyOpenSettles ==
    /\ variant = "forwarder"
    /\ tpc = "open"
    /\ \E o \in FetchOutcomes :
         LET r == slackPost(o)
             target == resolveSlackTargetOpened(r)
             logged == SettleSlack(slackCalls, ClassOf(r))
         IN  IF target.threw
             THEN /\ slackCalls' = logged
                  /\ rejects' = notifySlackCatch(rejects)
                  /\ tpc' = notifySlackSettles(TRUE)
             ELSE IF ~Truthy(target.value)
             THEN /\ slackCalls' = logged
                  /\ tpc' = notifySlackSettles(FALSE)
                  /\ UNCHANGED rejects
             ELSE /\ slackCalls' = Append(logged,
                         SlackCall("chat.postMessage", target.value))
                  /\ tpc' = "post"
                  /\ UNCHANGED rejects
    /\ UNCHANGED <<inputs, hpc, routeConfig, idx, hadForwardFailure, forwardCalls,
                   registered, tlocal>>
    /\ UNCHANGED <<routerVars, clientVars>>

\* chat.postMessage comes back to notifySlack
NotifyPostSettles ==
    /\ variant = "forwarder"
    /\ tpc = "post"
    /\ \E o \in FetchOutcomes :
         LET r == slackPost(o)
         IN  /\ slackCalls' = SettleSlack(slackCalls, ClassOf(r))
             /\ IF ClassOf(r) = "threw"
                THEN /\ rejects' = notifySlackCatch(rejects)
                     /\ tpc' = notifySlackSettles(TRUE)
                ELSE /\ tpc' = notifySlackSettles(FALSE)
                     /\ UNCHANGED rejects
    /\ UNCHANGED <<inputs, hpc, routeConfig, idx, hadForwardFailure, forwardCalls,
                   registered, tlocal>>
    /\ UNCHANGED <<routerVars, clientVars>>

\* ============================================ the strict Slack-only handler
\* (worker.js, first handler: rejects unknown recipients, uploads the raw
\* message to Slack in a background task)
Letters == Lower \cup Upper \cup {"d", "s", "t", "u", "x", "y", "z"}
Digits == {"1", "9"}
LocalChars == Letters \cup Digits \cup {".", "_", "%", "+", "-"}
DomainChars == Letters \cup Digits \cup {".", "-"}

\* the last index of the longest run of class characters of s starting at i
\* (i - 1 when s[i] is not of the class)
RunEnd(s, i, class) ==
    CHOOSE j \in (i - 1)..Len(s) :
        /\ \A m \in i..j : s[m] \in class
        /\ (j = Len(s) \/ s[j + 1] \notin class)

MaxOf(S) == CHOOSE d \in S : \A e \in S : e <= d

MinOf(S) == CHOOSE d \in S : \A e \in S : d <= e

\* the dots of the domain run that two letters follow: backtracking settles
\* on the last of them
TldDots(s, at, last) ==
    { d \in (at + 2)..last :
        /\ s[d] = "."
        /\ d + 2 <= last
        /\ s[d + 1] \in Letters
        /\ s[d + 2] \in Letters }

MatchTld(s, i, at, dots) ==
    IF at = i \/ at > Len(s) \/ s[at] # "@" \/ dots = {}
    THEN 0
    ELSE RunEnd(s, MaxOf(dots) + 1, Letters)

MatchDomain(s, i, at, last) == MatchTld(s, i, at, TldDots(s, at, last))

MatchLocal(s, i, at) ==
    MatchDomain(s, i, at, IF at <= Len(s) THEN RunEnd(s, at + 1, DomainChars) ELSE 0)

\* where /[a-z0-9._%+-]+@[a-z0-9.-]+\.[a-z]{2,}/i matches when tried at i:
\* the end of the match, 0 when there is none
MatchEnd(s, i) == MatchLocal(s, i, RunEnd(s, i, LocalChars) + 1)

EmailFrom(s, starts) ==
    IF starts = {} THEN Undefined
    ELSE Str(SubSeq(s, MinOf(starts), MatchEnd(s, MinOf(starts))))

\* raw.match(...)?.[1]: the first address in s, undefined when there is none
firstEmail(s) == EmailFrom(s, { i \in 1..Len(s) : MatchEnd(s, i) > 0 })

UnknownRecipient ==
    <<"u", "n", "k", "n", "o", "w", "n", "@", "u", "n", "k", "n", "o", "w", "n">>

\* the address the To header gives
headerEmail(msg) ==
    IF Truthy(Prop(msg, "headerTo")) THEN firstEmail(Prop(msg, "headerTo").s)
    ELSE Undefined

lowerOrUnknown(found) ==
    IF Truthy(found) THEN toLowerCase(found.s) ELSE UnknownRecipient

\* getPrimaryRecipient(message) of the Slack-only handlers: the first address
\* of message.to, else of the To header, lower-cased; else "unknown@unknown"
getPrimaryRecipient(msg) == lowerOrUnknown(OrElse(firstEmail(msg.to), headerEmail(msg)))

neverChannelId(id) == FALSE

\* /^[CG][A-Z0-9]+$/.test(id)
isChannelId(id) ==
    /\ id.kind = "str"
    /\ Len(id.s) >= 2
    /\ id.s[1] \in {"C", "G"}
    /\ \A i \in 2..Len(id.s) : id.s[i] \in {"A", "B", "C", "D", "G", "U"} \cup Digits

\* slackJson / slackForm of the Slack-only handlers, given how the fetch
\* ends: non-JSON and !json.ok become {ok:false}; a null body raises on json.ok
slackApi(o) ==
    IF o.net = "error" THEN Threw
    ELSE IF o.body = "non_json"
    THEN Returned(Parsed("false", "non_json_response", Undefined))
    ELSE LET json == parseBody(o.body)
         IN  IF json = Null THEN Threw
             ELSE IF json.ok # "true"
             THEN Returned(Parsed("false", json.error, Undefined))
             ELSE Returned(json)

\* the lengths message.raw can have once read, and that reading raised
RawOutcomes == {[threw |-> TRUE, length |-> 0]} \cup [threw : {FALSE}, length : {0, 5}]

Locals(targetId, rawBytes, bodyText) ==
    [kind |-> "locals", targetId |-> targetId, rawBytes |-> rawBytes,
     bodyText |-> bodyText, parsed |-> "unparsed", bodyPreview |-> Undefined]

\* the first handler of worker.js on a missing SLACK_BOT_TOKEN:
\* message.setReject("missing configuration")
missingTokenStrict(rej) == Append(rej, Reason("missing configuration"))

NoSuchRecipient(rcpt) == [text |-> "550 5.1.1 No such recipient: ", rcpt |-> rcpt]

\* email() of the strict handler; it awaits nothing
EmailStrict ==
    /\ variant = "strict"
    /\ hpc = "ready"
    /\ hpc' = "returned"
    /\ \E rcpt \in {getPrimaryRecipient(message)} :
       \E route \in {GetKey(EnvRoutes, rcpt)} :
           IF ~Truthy(env.SLACK_BOT_TOKEN)
           THEN /\ rejects' = missingTokenStrict(rejects)
                /\ UNCHANGED <<routeConfig, slackCalls, registered, tpc, tlocal>>
           ELSE IF ~Truthy(route)
           THEN /\ rejects' = Append(rejects, NoSuchRecipient(rcpt))
                /\ routeConfig' = route
                /\ UNCHANGED <<slackCalls, registered, tpc, tlocal>>
           ELSE /\ routeConfig' = route
                /\ registered' = TRUE
                /\ UNCHANGED rejects
                \* handleSlackForward up to its first await
                /\ IF Prop(route, "type") = TypeDm
                   THEN /\ slackCalls' = Append(slackCalls,
                               SlackCall("conversations.open", Prop(route, "user")))
                        /\ tpc' = "open"
                        /\ tlocal' = Locals(Undefined, Undefined, Undefined)
                   ELSE IF Prop(route, "type") = TypeChannel
                           /\ isChannelId(Prop(route, "id"))
                   THEN /\ tpc' = "raw"
                        /\ tlocal' = Locals(Prop(route, "id"), Undefined, Undefined)
                        /\ UNCHANGED slackCalls
                   ELSE /\ tpc' = "fulfilled"
                        /\ tlocal' = Locals(Undefined, Undefined, Undefined)
                        /\ UNCHANGED slackCalls
    /\ UNCHANGED <<inputs, idx, hadForwardFailure, forwardCalls>>
    /\ UNCHANGED <<routerVars, clientVars>>

TaskFrame ==
    /\ UNCHANGED <<inputs, hpc, routeConfig, idx, hadForwardFailure, rejects,
                   forwardCalls, registered>>
    /\ UNCHANGED <<routerVars, clientVars>>

\* how the promise handleSlackForward returned settles, its body having raised
\* or not: the body is one try/catch
handleSlackForwardSettles(threw) == "fulfilled"

\* openDmChannel comes back inside handleSlackForward
StrictOpenSettles ==
    /\ variant = "strict"
    /\ tpc = "open"
    /\ \E o \in FetchOutcomes :
         LET r == slackApi(o)
             id == IF ClassOf(r) = "ok" THEN OrElse(r.value.channelId, Null) ELSE Null
         IN  /\ slackCalls' = SettleSlack(slackCalls, ClassOf(r))
             /\ IF r.threw
                THEN tpc' = handleSlackForwardSettles(TRUE) /\ UNCHANGED tlocal
                ELSE IF ~Truthy(id)
                THEN tpc' = handleSlackForwardSettles(FALSE) /\ UNCHANGED tlocal
                ELSE tpc' = "raw" /\ tlocal' = [tlocal EXCEPT !.targetId = id]
    /\ TaskFrame

\* getRawEmailBytes comes back; files.getUploadURLExternal is requested with
\* the length of what was read
StrictRawSettles ==
    /\ variant = "strict"
    /\ tpc = "raw"
    /\ \E raw \in RawOutcomes :
         IF raw.threw
         THEN /\ tpc' = handleSlackForwardSettles(TRUE)
              /\ UNCHANGED <<tlocal, slackCalls>>
         ELSE /\ tlocal' = [tlocal EXCEPT !.rawBytes = raw.length]
              /\ slackCalls' = Append(slackCalls,
                     SlackCall("files.getUploadURLExternal", raw.length))
              /\ tpc' = "getUrl"
    /\ TaskFrame

\* files.getUploadURLExternal comes back; the bytes are posted to upload_url
StrictGetUrlSettles ==
    /\ variant = "strict"
    /\ tpc = "getUrl"
    /\ \E o \in FetchOutcomes :
         LET r == slackApi(o)
         IN  IF ClassOf(r) = "ok"
             THEN /\ slackCalls' = Append(SettleSlack(slackCalls, "ok"),
                         SlackCall("upload_url", tlocal.rawBytes))
                  /\ tpc' = "upload"
             ELSE /\ slackCalls' = SettleSlack(slackCalls, ClassOf(r))
                  /\ tpc' = handleSlackForwardSettles(r.threw)
    /\ UNCHANGED tlocal
    /\ TaskFrame

\* the byte transfer comes back; files.completeUploadExternal is requested
StrictUploadSettles ==
    /\ variant = "strict"
    /\ tpc = "upload"
    /\ \E o \in {[net |-> "error"]} \cup [net : {"ok"}, httpOk : BOOLEAN] :
         IF o.net = "ok" /\ o.httpOk
         THEN /\ slackCalls' = Append(SettleSlack(slackCalls, "ok"),
                     SlackCall("files.completeUploadExternal", tlocal.targetId))
              /\ tpc' = "complete"
         ELSE /\ slackCalls' = SettleSlack(slackCalls,
                     IF o.net = "error" THEN "threw" ELSE "not_ok")
              /\ tpc' = handleSlackForwardSettles(o.net = "error")
    /\ UNCHANGED tlocal
    /\ TaskFrame

\* files.completeUploadExternal comes back
StrictCompleteSettles ==
    /\ variant = "strict"
    /\ tpc = "complete"
    /\ \E o \in FetchOutcomes :
         LET r == slackApi(o)
         IN  /\ slackCalls' = SettleSlack(slackCalls, ClassOf(r))
             /\ tpc' = handleSlackForwardSettles(r.threw)
    /\ UNCHANGED tlocal
    /\ TaskFrame

\* ============================================== the draft forwarding handler
\* (worker.js, last handler: it names forwardTargets and forwardTo, which are
\* declared nowhere, so evaluating either raises a ReferenceError)
\* how the promise given to ctx.waitUntil settles: it is slackPost's own
\* promise, and slackPost catches nothing but JSON.parse
draftPostSettles(threw) == IF threw THEN "rejected" ELSE "fulfilled"

\* email() of the draft handler; it awaits nothing
EmailDraft ==
    /\ variant = "draft"
    /\ hpc = "ready"
    /\ \E rc \in {OrElse(GetKey(EnvRoutes, message.to), GetKey(EnvRoutes, FallbackKey))} :
       LET targets == IF rc.kind \in {"undefined", "null"} THEN Undefined
                      ELSE Prop(rc, "forwardTo")
           first == resolveSlackTargetSync(rc)
           opened == IF first.await
                     THEN <<SlackCall("conversations.open", first.value)>>
                     ELSE <<>>
       IN  /\ routeConfig' = rc
           /\ IF Truthy(targets)
              \* forwardTargets.length: ReferenceError
              THEN /\ hpc' = "threw"
                   /\ UNCHANGED <<rejects, slackCalls, registered, tpc>>
              ELSE IF ~Truthy(env.SLACK_BOT_TOKEN)
              \* message.forward(forwardTo): ReferenceError, caught
              THEN /\ rejects' = rejects \o <<Reason("Unknown addresses"),
                                             Reason("Unable to forward this email")>>
                   /\ hpc' = "returned"
                   /\ UNCHANGED <<slackCalls, registered, tpc>>
              ELSE IF rc.kind \in {"undefined", "null"}
              \* routeConfig.slack: TypeError
              THEN /\ rejects' = Append(rejects, Reason("Unknown addresses"))
                   /\ hpc' = "threw"
                   /\ UNCHANGED <<slackCalls, registered, tpc>>
              ELSE IF Truthy(Prop(rc, "slack"))
              THEN /\ slackCalls' = slackCalls \o opened
                                    \o <<SlackCall("chat.postMessage", [kind |-> "promise"])>>
                   /\ registered' = TRUE
                   /\ tpc' = "post"
                   /\ rejects' = rejects \o <<Reason("Unknown addresses"),
                                             Reason("Unable to forward this email")>>
                   /\ hpc' = "returned"
              ELSE /\ rejects' = rejects \o <<Reason("Unknown addresses"),
                                             Reason("Unable to forward this email")>>
                   /\ hpc' = "returned"
                   /\ UNCHANGED <<slackCalls, registered, tpc>>
    /\ UNCHANGED <<inputs, idx, hadForwardFailure, forwardCalls, tlocal>>
    /\ UNCHANGED <<routerVars, clientVars>>

\* the fetch of the registered slackPost comes back
DraftPostSettles ==
    /\ variant = "draft"
    /\ tpc = "post"
    /\ \E o \in FetchOutcomes :
         LET r == slackPost(o)
         IN  /\ slackCalls' = SettleSlack(slackCalls, ClassOf(r))
             /\ tpc' = draftPostSettles(r.threw)
    /\ UNCHANGED tlocal
    /\ TaskFrame

\* ===================================================== the preview handler
\* (part_005: never rejects; posts a preview and uploads the body and the raw
\* message in a background task).  In this handler's task an entry of
\* slackCalls is one call of a Slack helper (slackApiJson with its retries,
\* uploadBytesToSlack with its phases) and its result.
FallbackChannelName ==
    <<"f", "a", "l", "l", "b", "a", "c", "k", "-", "e", "m", "a", "i", "l", "-",
      "i", "n", "b", "o", "x">>

IndexOf(s, c) ==
    IF \E i \in 1..Len(s) : s[i] = c
    THEN CHOOSE i \in 1..Len(s) : s[i] = c /\ \A k \in 1..(i - 1) : s[k] # c
    ELSE 0

stripPlusAt(email, at, plus) ==
    IF at > 1 /\ at < Len(email) /\ plus > 1 /\ plus + 1 < at
    THEN SubSeq(email, 1, plus - 1) \o SubSeq(email, at, Len(email))
    ELSE email

\* stripPlus(email): /^([^@+]+)(?:\+[^@]+)?@(.+)$/, user+tag@domain -> user@domain
stripPlus(email) == stripPlusAt(email, IndexOf(email, "@"), IndexOf(email, "+"))

strippedOrUnknown(found, stripPlusAddressing) ==
    IF ~Truthy(found) THEN UnknownRecipient
    ELSE toLowerCase(IF stripPlusAddressing THEN stripPlus(found.s) ELSE found.s)

\* getPrimaryRecipient(message, {stripPlusAddressing}) of the preview handler
getPrimaryRecipientOpt(msg, stripPlusAddressing) ==
    strippedOrUnknown(OrElse(firstEmail(msg.to), headerEmail(msg)), stripPlusAddressing)

SlackRoute(type, id, user, name) ==
    [kind |-> "route", type |-> type, id |-> id, user |-> user, name |-> name]

\* normalizeRoute(route) of the preview handler
normalizeRoute(route) ==
    IF ~Truthy(route) \/ route.kind # "route" THEN Null
    ELSE LET type == IF Truthy(Prop(route, "type"))
                     THEN toLowerCase(Prop(route, "type").s) ELSE <<>>
         IN  IF Str(type) = TypeDm
             THEN IF Truthy(Prop(route, "user"))
                  THEN SlackRoute(TypeDm, Undefined, Prop(route, "user"), Undefined)
                  ELSE Null
             ELSE IF Str(type) = TypeChannel
             THEN SlackRoute(TypeChannel,
                             IF Truthy(Prop(route, "id")) THEN Prop(route, "id")
                             ELSE Undefined,
                             Undefined,
                             IF Truthy(Prop(route, "name")) THEN Prop(route, "name")
                             ELSE Undefined)
             ELSE Null

\* { ...DEFAULT_OPTIONS, ...safeJson(env.OPTIONS_JSON, {}) }
Options ==
    LET given == safeJson(env.OPTIONS_JSON, [kind |-> "object"])
        Opt(name) == IF name \in DOMAIN given THEN given[name] ELSE name # "stripPlusAddressing"
    IN  [uploadTxtBody |-> Opt("uploadTxtBody"),
         uploadRawEml |-> Opt("uploadRawEml"),
         stripPlusAddressing |-> Opt("stripPlusAddressing")]

\* how a call of a Slack helper ends for its caller
Summaries == {"ok", "not_ok", "threw"}

\* email() of the preview handler; it awaits nothing
EmailPreview ==
    /\ variant = "preview"
    /\ hpc = "ready"
    /\ hpc' = "returned"
    /\ IF ~Truthy(env.SLACK_BOT_TOKEN)
       THEN UNCHANGED <<routeConfig, slackCalls, registered, tpc, tlocal>>
       ELSE \E rcpt \in {getPrimaryRecipientOpt(message, Options.stripPlusAddressing)} :
            \E given \in {normalizeRoute(GetKey(EnvRoutes, rcpt))} :
            \E route \in {IF given = Null
                          THEN SlackRoute(TypeChannel, Undefined, Undefined,
                                          Str(FallbackChannelName))
                          ELSE given} :
                /\ routeConfig' = route
                /\ registered' = TRUE
                /\ tlocal' = Locals(IF isChannelId(route.id) THEN route.id ELSE Undefined,
                                    Undefined, Undefined)
                \* handleSlackForward up to its first await
                /\ IF route.type = TypeChannel /\ isChannelId(route.id)
                   THEN tpc' = "raw" /\ UNCHANGED slackCalls
                   ELSE IF route.type = TypeChannel /\ ~Truthy(route.name)
                   THEN tpc' = "fulfilled" /\ UNCHANGED slackCalls
                   ELSE /\ tpc' = "resolve"
                        /\ slackCalls' = Append(slackCalls,
                               SlackCall("resolveSlackTargetId", route))
    /\ UNCHANGED <<inputs, idx, hadForwardFailure, rejects, forwardCalls>>
    /\ UNCHANGED <<routerVars, clientVars>>

\* resolveSlackTargetId comes back: an id, null, or a raised transport error
PreviewResolveSettles ==
    /\ variant = "preview"
    /\ tpc = "resolve"
    /\ \E out \in Summaries :
         /\ slackCalls' = SettleSlack(slackCalls, out)
         /\ IF out = "ok"
            THEN tpc' = "raw" /\ tlocal' = [tlocal EXCEPT !.targetId = Str(OpenedChannel)]
            ELSE tpc' = handleSlackForwardSettles(out = "threw") /\ UNCHANGED tlocal
    /\ TaskFrame

\* getRawEmailBytes comes back
PreviewRawSettles ==
    /\ variant = "preview"
    /\ tpc = "raw"
    /\ \E raw \in RawOutcomes :
         IF raw.threw
         THEN tpc' = handleSlackForwardSettles(TRUE) /\ UNCHANGED tlocal
         ELSE tpc' = "parse" /\ tlocal' = [tlocal EXCEPT !.rawBytes = raw.length]
    /\ UNCHANGED slackCalls
    /\ TaskFrame

\* the raw .eml upload, when asked for: uploadBytesToSlack returns false at
\* once on an empty payload
StartEml(calls) ==
    IF Options.uploadRawEml /\ tlocal.rawBytes > 0
    THEN /\ slackCalls' = Append(calls, SlackCall("uploadBytesToSlack.eml", tlocal.targetId))
         /\ tpc' = "eml"
    ELSE /\ slackCalls' = calls
         /\ tpc' = handleSlackForwardSettles(FALSE)

\* chat.postMessage comes back
PreviewPostSettles ==
    /\ variant = "preview"
    /\ tpc = "post"
    /\ \E out \in Summaries :
         LET logged == SettleSlack(slackCalls, out)
         IN  IF out = "threw"
             THEN slackCalls' = logged /\ tpc' = handleSlackForwardSettles(TRUE)
             ELSE IF Options.uploadTxtBody /\ tlocal.bodyText
             THEN /\ slackCalls' = Append(logged, SlackCall("uploadBytesToSlack.txt", tlocal.targetId))
                  /\ tpc' = "txt"
             ELSE StartEml(logged)
    /\ UNCHANGED tlocal
    /\ TaskFrame

\* the body upload comes back
PreviewTxtSettles ==
    /\ variant = "preview"
    /\ tpc = "txt"
    /\ \E out \in Summaries :
         LET logged == SettleSlack(slackCalls, out)
         IN  IF out = "threw"
             THEN slackCalls' = logged /\ tpc' = handleSlackForwardSettles(TRUE)
             ELSE StartEml(logged)
    /\ UNCHANGED tlocal
    /\ TaskFrame

\* the raw upload comes back
PreviewEmlSettles ==
    /\ variant = "preview"
    /\ tpc = "eml"
    /\ \E out \in Summaries :
         /\ slackCalls' = SettleSlack(slackCalls, out)
         /\ tpc' = handleSlackForwardSettles(out = "threw")
    /\ UNCHANGED tlocal
    /\ TaskFrame

\* ========================================================== the API clients
\* (part_005: slackApiJson and slackApiForm, one loop over two encodings;
\* part_002: slackPost, a single request)
retries == 2

Clients == {"slackApiJson", "slackApiForm", "slackPost"}

ErrRatelimited == <<"r", "a", "t", "e", "l", "i", "m", "i", "t", "e", "d">>
ErrTimeout == <<"t", "i", "m", "e", "o", "u", "t">>
ErrInternal == <<"i", "n", "t", "e", "r", "n", "a", "l", "_", "e", "r", "r", "o", "r">>
ErrUnavailable ==
    <<"s", "e", "r", "v", "i", "c", "e", "_", "u", "n", "a", "v", "a", "i", "l", "a",
      "b", "l", "e">>
ErrFatal == <<"f", "a", "t", "a", "l", "_", "e", "r", "r", "o", "r">>
ErrFatalMixed == <<"F", "A", "t", "a", "l", "_", "e", "r", "r", "o", "r">>
ErrChannel == <<"c", "h", "a", "n", "n", "e", "l", "_", "n", "o", "t", "_", "f", "o", "u", "n", "d">>
ErrNonJson ==
    <<"n", "o", "n", "_", "j", "s", "o", "n", "_", "r", "e", "s", "p", "o", "n", "s", "e">>
ErrExhausted ==
    <<"r", "e", "t", "r", "i", "e", "s", "_", "e", "x", "h", "a", "u", "s", "t", "e", "d">>

RetryableErrors == {ErrRatelimited, ErrTimeout, ErrInternal, ErrUnavailable, ErrFatal}

isRetryableAlways(error) == TRUE

\* isRetryableSlackError(error): String(error || "").toLowerCase() in the set
isRetryableSlackError(error) ==
    toLowerCase(IF Truthy(error) THEN JsString(error) ELSE <<>>) \in RetryableErrors

\* a parsed JSON object of a response: its ok and error fields, and the
\* fields the callers read
Reply(ok, error) ==
    [kind |-> "object", ok |-> ok, error |-> error,
     upload_url |-> IF ok = "true" THEN Str(<<"u", "r", "l">>) ELSE Undefined,
     file_id |-> IF ok = "true" THEN Str(<<"F", "1">>) ELSE Undefined]

\* what JSON.parse(text) gives, or that it raises
JsonBodies ==
    {[json |-> FALSE]}
    \cup [json : {TRUE},
          value : {Null, Reply("true", Undefined), Reply("undefined", Undefined)}
                  \cup { Reply("false", e) :
                           e \in {Undefined, Str(ErrFatal), Str(ErrFatalMixed),
                                  Str(ErrChannel)} }]

\* the retry-after header: absent, or its text
RetryHints ==
    {Null, Str(<<"0">>), Str(<<"5">>), Str(<<"3", "0">>), Str(<<"-", "3">>), Str(<<"x">>)}

\* how a fetch ends: it raises, or a response comes back; the retry-after
\* header varies on the 429 responses, which alone have it read
Responses ==
    {[net |-> "error"]}
    \cup [net : {"ok"}, status : {200}, retryAfter : {Null}, body : JsonBodies]
    \cup [net : {"ok"}, status : {500}, retryAfter : {Null},
          body : {[json |-> FALSE], [json |-> TRUE, value |-> Reply("true", Undefined)],
                  [json |-> TRUE, value |-> Reply("false", Str(ErrFatal))]}]
    \cup [net : {"ok"}, status : {429}, retryAfter : RetryHints, body : {[json |-> FALSE]}]
    \cup [net : {"ok"}, status : {429}, retryAfter : {Null}, body : JsonBodies]

NaN == [nan |-> TRUE, n |-> 0]
Num(n) == [nan |-> FALSE, n |-> n]

DigitValue(c) ==
    CASE c = "0" -> 0 [] c = "1" -> 1 [] c = "2" -> 2 [] c = "3" -> 3 [] c = "4" -> 4
      [] c = "5" -> 5 [] c = "6" -> 6 [] c = "7" -> 7 [] c = "8" -> 8 [] c = "9" -> 9
      [] OTHER -> -1

RECURSIVE DecimalValue(_)
DecimalValue(s) ==
    IF s = <<>> THEN 0
    ELSE 10 * DecimalValue(SubSeq(s, 1, Len(s) - 1)) + DigitValue(s[Len(s)])

AllDigits(s) == \A i \in 1..Len(s) : DigitValue(s[i]) >= 0

\* Number(text) for the header texts: decimal digits with or without a minus
\* sign, NaN otherwise
Number(s) ==
    IF AllDigits(s) THEN Num(DecimalValue(s))
    ELSE IF Len(s) > 1 /\ s[1] = "-" /\ AllDigits(SubSeq(s, 2, Len(s)))
    THEN Num(0 - DecimalValue(SubSeq(s, 2, Len(s))))
    ELSE NaN

clampSeconds(x) ==
    IF x.nan THEN NaN
    ELSE Num(1000 * (IF x.n < 1 THEN 1 ELSE IF x.n > 10 THEN 10 ELSE x.n))

\* Math.min(Math.max(Number(header || "1"), 1), 10) * 1000
retryAfterMs(header) == clampSeconds(Number(OrElse(header, Str(<<"1">>)).s))

ApiSuccess(error, status) ==
    [kind |-> "object", ok |-> "true", error |-> error, httpStatus |-> status]

\* { ok: false, error, httpStatus }
ApiFail(error, status) ==
    [kind |-> "object", ok |-> "false", error |-> error, httpStatus |-> status]

\* { ok: false, error: "retries_exhausted" }
Exhausted == [kind |-> "object", ok |-> "false", error |-> Str(ErrExhausted)]

\* sleep(ms): setTimeout(r, ms) takes a delay that is not a number as 0
timerDelay(ms) == IF ms.nan THEN 0 ELSE ms.n

backoffFlat(att) == Num(600)

\* 600 * (attempt + 1)
backoffMs(att) == Num(600 * (att + 1))

Done(result) == [next |-> "done", ms |-> Num(0), result |-> result]
Sleep(ms) == [next |-> "sleep", ms |-> ms, result |-> Undefined]

\* the body of the loop after JSON.parse gave json
afterJson(att, status, json) ==
    IF json = Null THEN Done(Threw)
    ELSE IF json.ok # "true"
    THEN IF att < retries /\ isRetryableSlackError(json.error)
         THEN Sleep(backoffMs(att))
         ELSE Done(Returned(ApiFail(json.error, status)))
    ELSE Done(Returned(json))

onParseErrorRaises(status) == Done(Threw)

\* the catch around JSON.parse(text)
onParseError(status) == Done(Returned(ApiFail(Str(ErrNonJson), status)))

\* the body of the loop of slackApiJson / slackApiForm after its fetch
afterFetch(att, r) ==
    IF r.net = "error" THEN Done(Threw)
    ELSE IF r.status = 429 /\ att < retries THEN Sleep(retryAfterMs(r.retryAfter))
    ELSE IF ~r.body.json THEN onParseError(r.status)
    ELSE afterJson(att, r.status, r.body.value)

\* the response as slackPost of part_002 reads it
AsFetchOutcome(r) ==
    IF r.net = "error" THEN [net |-> "error"]
    ELSE [net |-> "ok", httpOk |-> r.status = 200,
          body |-> IF ~r.body.json THEN "non_json"
                   ELSE IF r.body.value = Null THEN "null"
                   ELSE IF r.body.value.ok = "true" THEN "ok_true"
                   ELSE IF r.body.value.ok = "false" THEN "ok_false"
                   ELSE "no_ok"]

ErrHttpStatus == <<"h", "t", "t", "p", "_", "s", "t", "a", "t", "u", "s">>

\* the error texts of slackPost's results, as character sequences
errorText(name) ==
    CASE name = "" -> Undefined
      [] name = "non_json_response" -> Str(ErrNonJson)
      [] name = "http_status" -> Str(ErrHttpStatus)
      [] OTHER -> Str(ErrChannel)

\* slackPost's result in the clients' terms
postResult(p) ==
    IF p.threw \/ p.value = Null THEN p
    ELSE Returned([kind |-> "object", ok |-> p.value.ok, error |-> errorText(p.value.error)])

Request(att) == [ev |-> "request", attempt |-> att, r |-> Undefined, ms |-> Num(0)]
Response(att, r) == [ev |-> "response", attempt |-> att, r |-> r, ms |-> Num(0)]
Slept(att, ms) == [ev |-> "sleep", attempt |-> att, r |-> Undefined, ms |-> ms]

InitApi ==
    /\ client \in Clients
    /\ apc = "fetch"
    /\ attempt = 0
    /\ apiLog = <<Request(0)>>
    /\ apiResult = Undefined

NotApi == UNCHANGED <<routerVars, handlerVars, uploadVars, componentVars>>

\* the pending fetch of the call ends
ApiResponse ==
    /\ apc = "fetch"
    /\ \E r \in Responses :
       \E step \in {IF client = "slackPost"
                    THEN Done(postResult(slackPost(AsFetchOutcome(r))))
                    ELSE afterFetch(attempt, r)} :
           /\ apc' = step.next
           /\ apiResult' = step.result
           /\ apiLog' = IF step.next = "sleep"
                        THEN apiLog \o <<Response(attempt, r), Slept(attempt, step.ms)>>
                        ELSE Append(apiLog, Response(attempt, r))
    /\ UNCHANGED <<client, attempt>>
    /\ NotApi

\* the sleep is over: `continue`, attempt++, and the next fetch or the end of
\* the loop
ApiWake ==
    /\ apc = "sleep"
    /\ attempt' = attempt + 1
    /\ IF attempt + 1 <= retries
       THEN /\ apc' = "fetch"
            /\ apiLog' = Append(apiLog, Request(attempt + 1))
            /\ UNCHANGED apiResult
       ELSE /\ apc' = "done"
            /\ apiResult' = Returned(Exhausted)
            /\ UNCHANGED apiLog
    /\ UNCHANGED client
    /\ NotApi

\* ====================================================== the upload protocol
\* (part_005: uploadBytesToSlack)
MaxBytes == 10

\* a Uint8Array
Bytes(data) == [kind |-> "bytes", data |-> data]

\* bytes?.byteLength ?? 0
byteLength(b) == IF b.kind \in {"undefined", "null"} THEN 0 ELSE Len(b.data)

DigitChar(d) ==
    CASE d = 0 -> "0" [] d = 1 -> "1" [] d = 2 -> "2" [] d = 3 -> "3" [] d = 4 -> "4"
      [] d = 5 -> "5" [] d = 6 -> "6" [] d = 7 -> "7" [] d = 8 -> "8" [] d = 9 -> "9"

\* String(n) of a non-negative integer
RECURSIVE Decimal(_)
Decimal(n) ==
    IF n < 10 THEN <<DigitChar(n)>> ELSE Append(Decimal(n \div 10), DigitChar(n % 10))

declaredCapacity(b) == Str(Decimal(MaxBytes))

\* length: String(length) of files.getUploadURLExternal
declaredLength(b) == Str(Decimal(byteLength(b)))

False == [kind |-> "bool", b |-> FALSE]
True == [kind |-> "bool", b |-> TRUE]

GetUrl(length) ==
    [phase |-> "files.getUploadURLExternal", length |-> length, url |-> Undefined,
     body |-> Undefined, id |-> Undefined, channel_id |-> Undefined]

Transfer(url, body) ==
    [phase |-> "upload", length |-> Undefined, url |-> url,
     body |-> body, id |-> Undefined, channel_id |-> Undefined]

Complete(id, channelId) ==
    [phase |-> "files.completeUploadExternal", length |-> Undefined, url |-> Undefined,
     body |-> Undefined, id |-> id, channel_id |-> channelId]

Payloads ==
    {Undefined, Bytes(<<>>), Bytes(<<255>>)}
    \cup { Bytes([i \in 1..n |-> 0]) : n \in {1, 2, MaxBytes} }

Channels == {Str(<<"C", "7">>), Str(<<"D", "9">>)}

InitUpload ==
    /\ bytes \in Payloads
    /\ channel \in Channels
    /\ upc = "start"
    /\ slot = Undefined
    /\ upLog = <<>>
    /\ upResult = Undefined

\* slackApiForm(...) is called
ApiCalled ==
    /\ client' = "slackApiForm"
    /\ apc' = "fetch"
    /\ attempt' = 0
    /\ apiLog' = <<Request(0)>>
    /\ apiResult' = Undefined

\* the awaited slackApiForm result has been taken
ApiTaken ==
    /\ client' = "none"
    /\ apc' = "idle"
    /\ attempt' = 0
    /\ apiLog' = <<>>
    /\ apiResult' = Undefined

UploadEnds(result) ==
    /\ upc' = "done"
    /\ upResult' = result
    /\ UNCHANGED <<slot, upLog>>

NotUpload == UNCHANGED <<routerVars, handlerVars, bytes, channel, componentVars>>

\* the call, up to its first await
UploadStart ==
    /\ upc = "start"
    /\ IF byteLength(bytes) = 0
       THEN /\ UploadEnds(Returned(False))
            /\ UNCHANGED apiVars
       ELSE /\ upLog' = Append(upLog, GetUrl(declaredLength(bytes)))
            /\ upc' = "slot"
            /\ ApiCalled
            /\ UNCHANGED <<slot, upResult>>
    /\ NotUpload

\* phase 1 is over: getUrlRes
UploadSlotSettles ==
    /\ upc = "slot"
    /\ apc = "done"
    /\ IF apiResult.threw
       THEN UploadEnds(Threw)
       ELSE IF apiResult.value.ok # "true"
       THEN UploadEnds(Returned(False))
       ELSE /\ slot' = apiResult.value
            /\ upLog' = Append(upLog, Transfer(apiResult.value.upload_url, bytes))
            /\ upc' = "transfer"
            /\ UNCHANGED upResult
    /\ ApiTaken
    /\ NotUpload

\* phase 2 is over: uploadRes
UploadTransferSettles ==
    /\ upc = "transfer"
    /\ \E uploadRes \in Summaries :
         IF uploadRes = "threw"
         THEN UploadEnds(Threw) /\ UNCHANGED apiVars
         ELSE IF uploadRes = "not_ok"
         THEN UploadEnds(Returned(False)) /\ UNCHANGED apiVars
         ELSE /\ upLog' = Append(upLog, Complete(slot.file_id, channel))
              /\ upc' = "finalize"
              /\ ApiCalled
              /\ UNCHANGED <<slot, upResult>>
    /\ NotUpload

\* phase 3 is over: completeRes
UploadFinalizeSettles ==
    /\ upc = "finalize"
    /\ apc = "done"
    /\ IF apiResult.threw
       THEN UploadEnds(Threw)
       ELSE IF apiResult.value.ok # "true"
       THEN UploadEnds(Returned(False))
       ELSE UploadEnds(Returned(True))
    /\ ApiTaken
    /\ NotUpload

\* ------------------------------------------------ the clients on their own
InitClients ==
    /\ RouterIdle
    /\ HandlerIdle
    /\ ComponentsIdle
    /\ \/ InitApi /\ UploadIdle
       \/ ApiIdle /\ InitUpload

NextClients ==
    \/ ApiResponse
    \/ ApiWake
    \/ UploadStart
    \/ UploadSlotSettles
    \/ UploadTransferSettles
    \/ UploadFinalizeSettles

SpecClients == InitClients /\ [][NextClients]_vars

\* ================================================= the Slack target resolver
\* (part_005: resolveSlackTargetId, openDmChannel, ensureChannelByName,
\* findChannelByName, and the cache handleSlackForward makes for them)
MaxResolves == 2
MaxPages == 2

Events == {1, 2}

\* ----------------------------------------------------------------- Map
\* an entry of a Map; `by` remembers the event that wrote it
Entry(key, value, by) == [key |-> key, value |-> value, by |-> by]

\* Map.prototype.has
MapHas(map, key) == \E i \in 1..Len(map) : map[i].key = key

MapAt(map, key) == CHOOSE i \in 1..Len(map) : map[i].key = key

\* Map.prototype.get
MapGet(map, key) == IF MapHas(map, key) THEN map[MapAt(map, key)].value ELSE Undefined

\* Map.prototype.set
MapSet(map, key, value, by) ==
    IF MapHas(map, key)
    THEN [map EXCEPT ![MapAt(map, key)] = Entry(key, value, by)]
    ELSE Append(map, Entry(key, value, by))

moduleMap(h) == 1

\* new Map(): a fresh object of the heap
newMap(h) == Len(h) + 1

\* the heap once the object `cell` exists
Allocated(h, cell) == IF cell > Len(h) THEN Append(h, <<>>) ELSE h

\* -------------------------------------------------------- channel names
NameLimit == 80

NameChars == ((Letters \ Upper) \cup Digits) \cup {"-", "_"}

\* .replace(/^#/, "")
dropHash(s) == IF s # <<>> /\ Head(s) = "#" THEN Tail(s) ELSE s

\* .replace(/\s+/g, "-")
RECURSIVE dashSpaces(_)
dashSpaces(s) ==
    IF s = <<>> THEN <<>>
    ELSE IF Head(s) \in WhiteSpace
    THEN <<"-">> \o dashSpaces(trimStart(s))
    ELSE <<Head(s)>> \o dashSpaces(Tail(s))

\* .replace(/[^a-z0-9-_]/g, "")
keepNameChars(s) == SelectSeq(s, LAMBDA c : c \in NameChars)

\* .slice(0, n)
sliceTo(s, n) == SubSeq(s, 1, IF Len(s) < n THEN Len(s) ELSE n)

rawChannelName(name) == JsString(OrElse(name, Str(<<>>)))

\* sanitizeChannelName(name)
sanitizeChannelName(name) ==
    sliceTo(keepNameChars(dashSpaces(dropHash(trim(toLowerCase(
                JsString(OrElse(name, Str(<<>>)))))))), NameLimit)

\* `channel:${name}`
CacheKey(name) == <<"c", "h", "a", "n", "n", "e", "l", ":">> \o name

\* --------------------------------------------------------- resolutions
ListedChannel == <<"C", "1">>
CreatedChannel == <<"C", "9">>

\* how slackApiJson ends for conversations.open / conversations.create:
\* it raises, {ok:false}, {ok:true, channel:{id}}, {ok:true} without an id
CallOutcomes == {"threw", "not_ok", "ok_id", "ok_bare"}

\* what findChannelByName does with one page of conversations.list: the call
\* raised, {ok:false}, a page naming the channel, a last page without it, a
\* page without it that has a cursor
PageOutcomes == {"threw", "not_ok", "match", "end", "more"}

CursorA == Str(<<"n", "1">>)
CursorB == Str(<<"n", "2">>)

\* { ok, channels, response_metadata: { next_cursor } }; channel is what
\* (res.channels || []).find((c) => c?.name === name) gives
ListPage(ok, ch, cursor) ==
    [kind |-> "object", ok |-> ok, channel |-> ch, cursor |-> cursor]

Channel(id) == [kind |-> "object", id |-> id]

\* how slackApiJson ends for one page of conversations.list: it raises,
\* {ok:false}, or a page: without the channel (no cursor, an empty one, a
\* cursor), with a channel of that name that has no id, with the channel
Pages ==
    {Threw, Returned(ListPage(FALSE, Undefined, Undefined))}
    \cup { Returned(ListPage(TRUE, Undefined, n)) : n \in {Undefined, Str(<<>>), CursorA} }
    \cup {Returned(ListPage(TRUE, Channel(Undefined), CursorB)),
          Returned(ListPage(TRUE, Channel(Str(ListedChannel)), CursorA))}

PageStep(outcome, next, cursor) == [outcome |-> outcome, next |-> next, cursor |-> cursor]

pagePastMatch(r) ==
    IF r.threw THEN PageStep("threw", "raise", Undefined)
    ELSE IF ~r.value.ok THEN PageStep("not_ok", "null", Undefined)
    ELSE IF Truthy(r.value.cursor) THEN PageStep("more", "again", r.value.cursor)
    ELSE PageStep("end", "null", r.value.cursor)

pageFailureRaises(r) ==
    IF r.threw \/ ~r.value.ok THEN PageStep("threw", "raise", Undefined)
    ELSE IF Truthy(r.value.channel) /\ Truthy(r.value.channel.id)
    THEN PageStep("match", "found", r.value.cursor)
    ELSE IF Truthy(r.value.cursor) THEN PageStep("more", "again", r.value.cursor)
    ELSE PageStep("end", "null", r.value.cursor)

\* one turn of the loop of findChannelByName, given how its request ended
findChannelPage(r) ==
    IF r.threw THEN PageStep("threw", "raise", Undefined)
    ELSE IF ~r.value.ok THEN PageStep("not_ok", "null", Undefined)
    ELSE IF Truthy(r.value.channel) /\ Truthy(r.value.channel.id)
    THEN PageStep("match", "found", r.value.cursor)
    ELSE IF Truthy(r.value.cursor) THEN PageStep("more", "again", r.value.cursor)
    ELSE PageStep("end", "null", r.value.cursor)

RCall(e, k, method, arg) ==
    [event |-> e, k |-> k, method |-> method, arg |-> arg, result |-> "pending",
     answer |-> Undefined]

Lookup(e, cell, key, hit, by, elsewhere) ==
    [event |-> e, cell |-> cell, key |-> key, hit |-> hit, by |-> by,
     elsewhere |-> elsewhere]

Elsewhere(h, cell, key) == \E c \in 1..Len(h) : c # cell /\ MapHas(h[c], key)

Resolved(route, result) == [route |-> route, result |-> result]

Sync(next, value, name, lookup) ==
    [next |-> next, value |-> value, name |-> name, lookup |-> lookup]

ensureUncached(name, map) == Sync("list", Undefined, name, "miss")

\* ensureChannelByName up to its first await
ensureStart(name, map) ==
    IF MapHas(map, CacheKey(name))
    THEN Sync("return", MapGet(map, CacheKey(name)), name, "hit")
    ELSE Sync("list", Undefined, name, "miss")

channelStart(route, name, map) ==
    IF name = <<>> THEN Sync("return", Null, name, "none") ELSE ensureStart(name, map)

\* resolveSlackTargetId up to its first await
resolveStart(route, map) ==
    IF route.type = TypeDm
    THEN IF ~Truthy(route.user)
         THEN Sync("return", Null, <<>>, "none")
         ELSE Sync("open", Undefined, <<>>, "none")
    ELSE IF route.type = TypeChannel
    THEN IF Truthy(route.id) /\ isChannelId(route.id)
         THEN Sync("return", route.id, <<>>, "none")
         ELSE channelStart(route, sanitizeChannelName(route.name), map)
    ELSE Sync("return", Null, <<>>, "none")

Event(pc, cache, todo, k, name, pages, out) ==
    [pc |-> pc, cache |-> cache, todo |-> todo, k |-> k, name |-> name,
     pages |-> pages, out |-> out]

\* the resolution of event ev returns value
Returns(ev, value) ==
    [ev EXCEPT !.out = Append(ev.out, Resolved(Head(ev.todo), Returned(value))),
               !.todo = Tail(ev.todo),
               !.pc = IF Len(ev.todo) = 1 THEN "done" ELSE "resolved"]

\* the resolution raises: the catch of handleSlackForward ends the task
Raises(ev) ==
    [ev EXCEPT !.out = Append(ev.out, Resolved(Head(ev.todo), Threw)),
               !.todo = <<>>,
               !.pc = "done"]

SettleCall(calls, e, what) ==
    [i \in 1..Len(calls) |->
        IF calls[i].event = e /\ calls[i].result = "pending"
        THEN [calls[i] EXCEPT !.result = what]
        ELSE calls[i]]

\* event e calls resolveSlackTargetId on its next descriptor with cache cell
Begin(e, cell, h) ==
    \E ev \in {[evs[e] EXCEPT !.cache = cell, !.k = @ + 1, !.pages = 0]} :
    \E r \in {resolveStart(Head(ev.todo), h[cell])} :
        /\ heap' = h
        /\ reads' = IF r.lookup = "none" THEN reads
                    ELSE Append(reads,
                           Lookup(e, cell, CacheKey(r.name), r.lookup = "hit",
                                  IF r.lookup = "hit"
                                  THEN h[cell][MapAt(h[cell], CacheKey(r.name))].by
                                  ELSE 0,
                                  Elsewhere(h, cell, CacheKey(r.name))))
        /\ IF r.next = "return"
           THEN /\ evs' = [evs EXCEPT ![e] = Returns(ev, r.value)]
                /\ UNCHANGED rcalls
           ELSE IF r.next = "open"
           THEN /\ evs' = [evs EXCEPT ![e] = [ev EXCEPT !.pc = "open"]]
                /\ rcalls' = Append(rcalls,
                       RCall(e, ev.k, "conversations.open", Head(ev.todo).user))
           ELSE /\ evs' = [evs EXCEPT ![e] = [ev EXCEPT !.pc = "list", !.name = r.name]]
                /\ rcalls' = Append(rcalls,
                       RCall(e, ev.k, "conversations.list", Undefined))

\* the pending conversations.list call of event e got the answer r
SettlePage(calls, e, what, r) ==
    [i \in 1..Len(calls) |->
        IF calls[i].event = e /\ calls[i].result = "pending"
        THEN [calls[i] EXCEPT !.result = what, !.answer = r]
        ELSE calls[i]]

NotResolver ==
    UNCHANGED <<routerVars, handlerVars, apiVars, uploadVars, renderVars, readerVars,
                allowCreate>>

\* handleSlackForward of an event starts: its cache, and its first resolution
EventStart ==
    /\ \E e \in DOMAIN evs :
         /\ evs[e].pc = "idle"
         /\ evs[e].todo # <<>>
         /\ \E cell \in {newMap(heap)} : Begin(e, cell, Allocated(heap, cell))
    /\ NotResolver

\* the event resolves a further descriptor with the same cache
ResolveAgain ==
    /\ \E e \in DOMAIN evs :
         /\ evs[e].pc = "resolved"
         /\ Begin(e, evs[e].cache, heap)
    /\ NotResolver

\* openDmChannel: conversations.open comes back
OpenSettles ==
    /\ \E e \in DOMAIN evs :
         /\ evs[e].pc = "open"
         /\ \E o \in CallOutcomes :
              /\ rcalls' = SettleCall(rcalls, e, o)
              /\ evs' = [evs EXCEPT ![e] =
                     IF o = "threw" THEN Raises(evs[e])
                     ELSE IF o = "ok_id" THEN Returns(evs[e], Str(OpenedChannel))
                     ELSE Returns(evs[e], Null)]
    /\ UNCHANGED <<heap, reads>>
    /\ NotResolver

createAnyway(e, calls) ==
    /\ evs' = [evs EXCEPT ![e].pc = "create"]
    /\ rcalls' = Append(calls,
           RCall(e, evs[e].k, "conversations.create", Str(evs[e].name)))
    /\ UNCHANGED heap

\* ensureChannelByName after findChannelByName gave null: creation or null
NotFound(e, calls) ==
    IF allowCreate
    THEN /\ evs' = [evs EXCEPT ![e].pc = "create"]
         /\ rcalls' = Append(calls,
                RCall(e, evs[e].k, "conversations.create", Str(evs[e].name)))
         /\ UNCHANGED heap
    ELSE /\ evs' = [evs EXCEPT ![e] = Returns(evs[e], Null)]
         /\ rcalls' = calls
         /\ heap' = [heap EXCEPT ![evs[e].cache] =
                         MapSet(@, CacheKey(evs[e].name), Null, e)]

\* findChannelByName: a page of conversations.list comes back
\* the pages tried while two events interleave: without the channel (the
\* last page, or a cursor to the next), and with the channel
SharedPages ==
    {Returned(ListPage(TRUE, Undefined, Undefined)),
     Returned(ListPage(TRUE, Undefined, CursorA)),
     Returned(ListPage(TRUE, Channel(Str(ListedChannel)), CursorA))}

PagesOf(events) ==
    IF \A e \in DOMAIN events : events[e].todo # <<>> THEN SharedPages ELSE Pages

ListSettles ==
    /\ \E e \in DOMAIN evs :
         /\ evs[e].pc = "list"
         /\ \E r \in PagesOf(evs) :
            \E step \in {findChannelPage(r)} :
            \E calls \in {SettlePage(rcalls, e, step.outcome, r)} :
              CASE step.next = "raise" ->
                     /\ evs' = [evs EXCEPT ![e] = Raises(evs[e])]
                     /\ rcalls' = calls
                     /\ UNCHANGED heap
                [] step.next = "found" ->
                     /\ evs' = [evs EXCEPT ![e] = Returns(evs[e], r.value.channel.id)]
                     /\ rcalls' = calls
                     /\ heap' = [heap EXCEPT ![evs[e].cache] =
                                     MapSet(@, CacheKey(evs[e].name), r.value.channel.id, e)]
                [] step.next = "again" ->
                     /\ evs[e].pages + 1 < MaxPages
                     /\ evs' = [evs EXCEPT ![e].pages = @ + 1]
                     /\ rcalls' = Append(calls,
                            RCall(e, evs[e].k, "conversations.list", step.cursor))
                     /\ UNCHANGED heap
                [] OTHER -> NotFound(e, calls)
    /\ UNCHANGED reads
    /\ NotResolver

\* ensureChannelByName: conversations.create comes back
CreateSettles ==
    /\ \E e \in DOMAIN evs :
         /\ evs[e].pc = "create"
         /\ \E o \in CallOutcomes :
              /\ rcalls' = SettleCall(rcalls, e, o)
              /\ IF o = "threw"
                 THEN /\ evs' = [evs EXCEPT ![e] = Raises(evs[e])]
                      /\ UNCHANGED heap
                 ELSE \E id \in {IF o = "ok_id" THEN Str(CreatedChannel) ELSE Null} :
                      /\ evs' = [evs EXCEPT ![e] = Returns(evs[e], id)]
                      /\ heap' = [heap EXCEPT ![evs[e].cache] =
                                      MapSet(@, CacheKey(evs[e].name), id, e)]
    /\ UNCHANGED reads
    /\ NotResolver

\* ------------------------------------------------------ the descriptors
UserU == Str(<<"U", "1">>)

Descriptors ==
    {SlackRoute(TypeDm, Undefined, UserU, Undefined),
     SlackRoute(TypeDm, Undefined, Undefined, Undefined),
     SlackRoute(TypeChannel, Str(<<"C", "1">>), Undefined, Undefined),
     SlackRoute(TypeChannel, Str(<<"G", "A", "9">>), Undefined, Str(<<"a", "b">>)),
     SlackRoute(TypeChannel, Undefined, Undefined, Str(<<"A", "b", " ", "c">>)),
     SlackRoute(TypeChannel, Str(<<"D", "9">>), Undefined, Str(<<"#", "a", "b", "-", "c", "!">>)),
     SlackRoute(TypeChannel, Str(<<"c", "1">>), Undefined, Undefined),
     SlackRoute(Str(<<"x">>), Undefined, Undefined, Undefined)}

\* the descriptors of two events whose tasks interleave: two spellings of
\* one channel name
FirstDescriptor ==
    SlackRoute(TypeChannel, Undefined, Undefined, Str(<<"A", "b", " ", "c">>))

SecondDescriptor ==
    SlackRoute(TypeChannel, Str(<<"D", "9">>), Undefined, Str(<<"#", "a", "b", "-", "c", "!">>))

\* the descriptors an event resolves with its cache, one after the other
\* (handleSlackForward resolves one); the worker handles one event that
\* resolves several, or two events whose tasks interleave
\* the descriptors an event resolves after its first: the two spellings of
\* one channel name, and a DM
LaterDescriptors ==
    {FirstDescriptor, SecondDescriptor, SlackRoute(TypeDm, Undefined, UserU, Undefined)}

Plans ==
    { <<d>> \o rest :
        d \in Descriptors,
        rest \in UNION { [1..n -> LaterDescriptors] : n \in 0..(MaxResolves - 1) } }

InitResolver ==
    /\ heap = <<>>
    /\ \E first \in Plans : \E second \in {<<>>, <<SecondDescriptor>>} :
         /\ second # <<>> => first = <<FirstDescriptor>>
         /\ evs = [e \in Events |->
                     Event("idle", 0, IF e = 1 THEN first ELSE second, 0, <<>>, 0, <<>>)]
    /\ rcalls = <<>>
    /\ reads = <<>>
    /\ allowCreate \in BOOLEAN


\* ================================================== the preview renderer
\* (part_005: clampSlackMrkdwn, escapeSlackMrkdwn, buildSlackBlocks)
\* A text is a sequence of runs: the characters s repeated n times, so that
\* texts of thousands of characters stay small. The characters outside
\* ASCII are written by their code points.
MaxRuns == 2

SLACK_BLOCK_TEXT_LIMIT == 3000
SLACK_PREVIEW_LIMIT == 2500
SLACK_ATTACHMENTS_LIST_LIMIT == 10

Backtick == "U+0060"
Ellipsis == "U+2026"
ModifierGrave == "U+02CB"
Bullet == "U+2022"

Run(s, n) == [s |-> s, n |-> n]

\* a string literal
Lit(s) == IF s = <<>> THEN <<>> ELSE <<Run(s, 1)>>

\* .length
RECURSIVE TextLen(_)
TextLen(t) == IF t = <<>> THEN 0 ELSE Len(Head(t).s) * Head(t).n + TextLen(Tail(t))

\* the first k characters of the run r, k less than its length
RunPrefix(r, k) ==
    (IF k \div Len(r.s) > 0 THEN <<Run(r.s, k \div Len(r.s))>> ELSE <<>>)
    \o (IF k % Len(r.s) > 0 THEN <<Run(SubSeq(r.s, 1, k % Len(r.s)), 1)>> ELSE <<>>)

\* .slice(0, k)
RECURSIVE TextSlice(_, _)
TextSlice(t, k) ==
    IF t = <<>> \/ k <= 0 THEN <<>>
    ELSE IF Len(Head(t).s) * Head(t).n <= k
    THEN <<Head(t)>> \o TextSlice(Tail(t), k - Len(Head(t).s) * Head(t).n)
    ELSE RunPrefix(Head(t), k)

Blank(r) == r.n = 0 \/ \A i \in 1..Len(r.s) : r.s[i] \in WhiteSpace

RECURSIVE TextTrimStart(_)
TextTrimStart(t) ==
    IF t = <<>> THEN <<>>
    ELSE IF Blank(Head(t)) THEN TextTrimStart(Tail(t))
    ELSE IF Head(t).s[1] \in WhiteSpace
    THEN <<Run(trimStart(Head(t).s), 1)>>
         \o (IF Head(t).n > 1 THEN <<Run(Head(t).s, Head(t).n - 1)>> ELSE <<>>)
         \o Tail(t)
    ELSE t

RECURSIVE TextTrimEnd(_)
TextTrimEnd(t) ==
    IF t = <<>> THEN <<>>
    ELSE IF Blank(t[Len(t)]) THEN TextTrimEnd(SubSeq(t, 1, Len(t) - 1))
    ELSE IF t[Len(t)].s[Len(t[Len(t)].s)] \in WhiteSpace
    THEN SubSeq(t, 1, Len(t) - 1)
         \o (IF t[Len(t)].n > 1 THEN <<Run(t[Len(t)].s, t[Len(t)].n - 1)>> ELSE <<>>)
         \o <<Run(trimEnd(t[Len(t)].s), 1)>>
    ELSE t

\* .trim()
TextTrim(t) == TextTrimEnd(TextTrimStart(t))

\* .replace(/c/g, rep) on a sequence of characters
RECURSIVE replaceAll(_, _, _)
replaceAll(s, c, rep) ==
    IF s = <<>> THEN <<>>
    ELSE (IF Head(s) = c THEN rep ELSE <<Head(s)>>) \o replaceAll(Tail(s), c, rep)

escapeChars(s) ==
    replaceAll(replaceAll(replaceAll(replaceAll(s,
        "&", <<"&", "a", "m", "p", ";">>),
        "<", <<"&", "l", "t", ";">>),
        ">", <<"&", "g", "t", ";">>),
        Backtick, <<ModifierGrave>>)

\* escapeSlackMrkdwn(s): the replaced characters never span two repeats
escapeSlackMrkdwn(t) == [i \in 1..Len(t) |-> Run(escapeChars(t[i].s), t[i].n)]

escapedOnly(text, maxChars) == escapeSlackMrkdwn(TextTrim(text))

clampNoMarker(text, maxChars) ==
    IF TextLen(TextTrim(text)) = 0 THEN <<>>
    ELSE TextSlice(escapeSlackMrkdwn(TextTrim(text)), maxChars)

\* clampSlackMrkdwn(text, maxChars)
clampSlackMrkdwn(text, maxChars) ==
    IF TextLen(TextTrim(text)) = 0 THEN <<>>
    ELSE IF TextLen(escapeSlackMrkdwn(TextTrim(text))) <= maxChars
    THEN escapeSlackMrkdwn(TextTrim(text))
    ELSE TextSlice(escapeSlackMrkdwn(TextTrim(text)),
                   IF maxChars - 1 > 0 THEN maxChars - 1 ELSE 0)
         \o Lit(<<Ellipsis>>)

\* "_(No readable body found.)_"
NoReadableBody ==
    Lit(<<"_", "(", "N", "o", " ", "r", "e", "a", "d", "a", "b", "l", "e", " ",
          "b", "o", "d", "y", " ", "f", "o", "u", "n", "d", ".", ")", "_">>)

\* bodyText ? clampSlackMrkdwn(bodyText, SLACK_PREVIEW_LIMIT) : the marker
bodyPreviewOf(bodyText) ==
    IF TextLen(bodyText) > 0 THEN clampSlackMrkdwn(bodyText, SLACK_PREVIEW_LIMIT)
    ELSE NoReadableBody

\* `*label*\n${text}`.slice(0, SLACK_BLOCK_TEXT_LIMIT)
Labelled(label, text) ==
    TextSlice(Lit(<<"*">> \o label \o <<"*", "\n">>) \o text, SLACK_BLOCK_TEXT_LIMIT)

\* `<bullet> ${i + 1}. ${a.filename} (${a.mimeType}, ${a.size} bytes)`
attLine(i, a) ==
    Lit(<<Bullet, " ">> \o Decimal(i) \o <<".", " ">>) \o a.filename
    \o Lit(<<" ", "(">>) \o a.mimeType \o Lit(<<",", " ">> \o Decimal(a.size))
    \o Lit(<<" ", "b", "y", "t", "e", "s", ")">>)

\* attachments.slice(0, LIMIT).map(...).join("\n")
RECURSIVE attLines(_, _)
attLines(atts, i) ==
    IF i > Len(atts) \/ i > SLACK_ATTACHMENTS_LIST_LIMIT THEN <<>>
    ELSE (IF i > 1 THEN Lit(<<"\n">>) ELSE <<>>) \o attLine(i, atts[i]) \o attLines(atts, i + 1)

Block(label, text) == [label |-> label, text |-> text]

\* buildSlackBlocks: the mrkdwn texts, in order
buildSlackBlocks(m, bodyPreview) ==
    <<Block("To", Labelled(<<"T", "o", ":">>, escapeSlackMrkdwn(m.toHeader))),
      Block("From", Labelled(<<"F", "r", "o", "m", ":">>, escapeSlackMrkdwn(m.from))),
      Block("Subject",
            Labelled(<<"S", "u", "b", "j", "e", "c", "t", ":">>, escapeSlackMrkdwn(m.subject))),
      Block("Preview", Labelled(<<"P", "r", "e", "v", "i", "e", "w", ":">>, bodyPreview))>>
    \o (IF m.attachments # <<>>
        THEN <<Block("Attachments",
                     Labelled(<<"A", "t", "t", "a", "c", "h", "m", "e", "n", "t", "s", " ", "(">>
                              \o Decimal(Len(m.attachments)) \o <<")", ":">>,
                              escapeSlackMrkdwn(attLines(m.attachments, 1))))>>
        ELSE <<>>)

\* ------------------------------------------------- the parsed message
\* what new PostalMime().parse(rawBytes) gives: it raises, or a message with
\* no text and no html, with white space for text, with text, with html only
ParseOutcomes == {"threw", "empty", "blank", "text", "html"}

Mime(text, html) == [kind |-> "mime", text |-> text, html |-> html]

parseMimeUncaught(o) ==
    IF o = "threw" THEN Threw
    ELSE Returned(
           CASE o = "blank" -> Mime(<<Run(<<" ">>, 2)>>, <<>>)
             [] o = "text" -> Mime(<<Run(<<" ">>, 1), Run(<<"a">>, 3)>>, <<>>)
             [] o = "html" -> Mime(<<>>, Lit(<<"<", "p", ">">>))
             [] OTHER -> Mime(<<>>, <<>>))

\* safeParseMime(rawBytes): { text: "", html: "", attachments: [] } on a raise
safeParseMime(o) ==
    IF o = "threw" THEN Returned(Mime(<<>>, <<>>)) ELSE parseMimeUncaught(o)

\* htmlToText(html) of an html that is not blank: some text, or none when
\* the html holds markup only
HtmlTexts == {<<>>, Lit(<<"a">>)}

\* extractBestText(parsed): the texts it may return
extractBestText(parsed) ==
    IF TextLen(TextTrim(parsed.text)) > 0 THEN {TextTrim(parsed.text)}
    ELSE IF TextLen(TextTrim(parsed.html)) > 0 THEN HtmlTexts
    ELSE {<<>>}

\* safeParseMime comes back (it catches a failed parse); the preview is
\* rendered and posted
PreviewParseSettles ==
    /\ variant = "preview"
    /\ tpc = "parse"
    /\ \E o \in ParseOutcomes :
       \E parsed \in {safeParseMime(o)} :
         IF parsed.threw
         THEN /\ tlocal' = [tlocal EXCEPT !.parsed = o]
              /\ tpc' = handleSlackForwardSettles(TRUE)
              /\ UNCHANGED slackCalls
         ELSE \E bodyText \in extractBestText(parsed.value) :
              /\ TextLen(bodyText) > 0 => tlocal.rawBytes > 0
              /\ tlocal' = [tlocal EXCEPT !.bodyText = TextLen(bodyText) > 0,
                                          !.parsed = o,
                                          !.bodyPreview = bodyPreviewOf(bodyText)]
              /\ slackCalls' = Append(slackCalls,
                     SlackCall("chat.postMessage", tlocal.targetId))
              /\ tpc' = "post"
    /\ TaskFrame

\* ------------------------------------------------------------ the inputs
BodyRuns == [s : {<<"a">>, <<"&">>, <<" ">>}, n : {1, 2499, 2500, 2501}]

BodyTexts == {<<>>} \cup UNION { [1..k -> BodyRuns] : k \in 1..MaxRuns }

HeaderTexts == {Lit(<<"a">>), <<Run(<<Backtick>>, 3000)>>, <<Run(<<"<">>, 2990), Run(<<"a">>, 9)>>}

Attachment(filename, size) ==
    [filename |-> filename, mimeType |-> Lit(<<"x">>), size |-> size]

AttachmentLists ==
    {<<>>, <<Attachment(Lit(<<"a">>), 9)>>,
     [i \in 1..(SLACK_ATTACHMENTS_LIST_LIMIT + 1) |-> Attachment(<<Run(<<"&">>, 300)>>, 12)]}

Mails ==
    [toHeader : HeaderTexts,
     from : {Lit(<<"a">>), <<Run(<<"<">>, 2990), Run(<<"a">>, 9)>>},
     subject : {Lit(<<"a">>), <<Run(<<Backtick>>, 3000)>>},
     bodyText : { TextTrim(b) : b \in BodyTexts }, attachments : AttachmentLists]

InitRender ==
    /\ mail \in Mails
    /\ rendered = Undefined

\* handleSlackForward, lines 78-89: the preview and the blocks
Render ==
    /\ mail # Undefined
    /\ rendered = Undefined
    /\ \E bodyPreview \in {bodyPreviewOf(mail.bodyText)} :
         rendered' = [kind |-> "rendered", bodyPreview |-> bodyPreview,
                      blocks |-> buildSlackBlocks(mail, bodyPreview)]
    /\ UNCHANGED mail
    /\ UNCHANGED <<routerVars, handlerVars, apiVars, uploadVars, resolverVars, readerVars>>

\* ====================================================== the raw message
\* (getRawEmailBytes: part_003 206-246, part_005 495-528)
MaxChunks == 2

Readers == {"part_003", "part_005"}

\* an ArrayBuffer
ArrayBuffer(data) == [kind |-> "arraybuffer", data |-> data]

\* a ReadableStream: the chunks it delivers, and whether it then reports
\* done or fails
Stream(chunks, ends) == [kind |-> "stream", chunks |-> chunks, ends |-> ends]

\* a value of another kind, which Response may or may not be able to read
Blob == [kind |-> "blob"]

EAcute == "U+00E9"

\* the UTF-8 bytes of one character
Utf8(c) ==
    CASE c = "a" -> <<97>>
      [] c = EAcute -> <<195, 169>>
      [] OTHER -> <<63>>

\* new TextEncoder().encode(s)
RECURSIVE encode(_)
encode(s) == IF s = <<>> THEN <<>> ELSE Utf8(Head(s)) \o encode(Tail(s))

\* out.set(c, offset) on the elements of out
TypedSet(out, c, offset) ==
    [i \in 1..Len(out) |->
        IF i > offset /\ i <= offset + Len(c) THEN c[i - offset] ELSE out[i]]

\* for (const c of chunks) { out.set(c, offset); offset += c.byteLength; }
RECURSIVE setChunks(_, _, _)
setChunks(out, chunks, offset) ==
    IF chunks = <<>> THEN out
    ELSE setChunks(TypedSet(out, Head(chunks), offset), Tail(chunks),
                   offset + Len(Head(chunks)))

RECURSIVE Reversed(_)
Reversed(s) == IF s = <<>> THEN <<>> ELSE Append(Reversed(Tail(s)), Head(s))

assembleBackwards(chunks, total) ==
    setChunks([i \in 1..total |-> 0], Reversed(chunks), 0)

\* const out = new Uint8Array(total), filled from the chunks
assemble(chunks, total) == setChunks([i \in 1..total |-> 0], chunks, 0)

ReadStep(next, value) == [next |-> next, value |-> value]

\* getRawEmailBytes up to its first await
getRawEmailBytes(copy, raw) ==
    IF copy = "part_003" /\ ~Truthy(raw) THEN ReadStep("return", Bytes(<<>>))
    ELSE IF raw.kind = "bytes" THEN ReadStep("return", raw)
    ELSE IF raw.kind = "arraybuffer" THEN ReadStep("return", Bytes(raw.data))
    ELSE IF Truthy(raw) /\ raw.kind = "stream" THEN ReadStep("read", Undefined)
    ELSE IF raw.kind = "str" THEN ReadStep("return", Bytes(encode(raw.s)))
    ELSE ReadStep("fallback", Undefined)

\* `if (!value?.byteLength) continue;` of part_003
skipsChunk(copy, value) == copy = "part_003" /\ Len(value) = 0

\* how `await new Response(raw).arrayBuffer()` ends
FallbackOutcomes(raw) ==
    IF raw.kind \in {"undefined", "null"} THEN {Returned(Bytes(<<>>))}
    ELSE {Returned(Bytes(<<7>>)), Threw}

\* the fallback of part_003 catches and returns an empty array
fallbackResult(copy, o) ==
    IF o.threw /\ copy = "part_003" THEN Returned(Bytes(<<>>)) ELSE o

ReadLocals(rest, chunks, total) == [rest |-> rest, chunks |-> chunks, total |-> total]

ChunkPool == {<<>>, <<1>>, <<2, 3>>}

Streams ==
    { Stream(cs, e) : cs \in UNION { [1..n -> ChunkPool] : n \in 0..MaxChunks },
                      e \in {"done", "error"} }

RawBodies ==
    {Undefined, Null, Str(<<>>), Str(<<"a", EAcute>>), Bytes(<<>>), Bytes(<<1, 2>>),
     ArrayBuffer(<<>>), ArrayBuffer(<<3>>), Blob}
    \cup Streams

InitReader ==
    /\ reader \in Readers
    /\ rawBody \in RawBodies
    /\ rdpc = "start"
    /\ rd = Undefined
    /\ rawResult = Undefined

NotReader ==
    UNCHANGED <<routerVars, handlerVars, apiVars, uploadVars, resolverVars, renderVars,
                reader, rawBody>>

\* the call, up to its first await
ReaderStart ==
    /\ rdpc = "start"
    /\ \E step \in {getRawEmailBytes(reader, rawBody)} :
         IF step.next = "return"
         THEN rdpc' = "done" /\ rawResult' = Returned(step.value) /\ UNCHANGED rd
         ELSE IF step.next = "read"
         THEN /\ rdpc' = "read"
              /\ rd' = ReadLocals(rawBody.chunks, <<>>, 0)
              /\ UNCHANGED rawResult
         ELSE rdpc' = "fallback" /\ UNCHANGED <<rd, rawResult>>
    /\ NotReader

\* reader.read() comes back: a chunk, done, or a failure of the stream
ReaderRead ==
    /\ rdpc = "read"
    /\ IF rd.rest = <<>>
       THEN /\ rdpc' = "done"
            /\ rawResult' = IF rawBody.ends = "error" THEN Threw
                            ELSE Returned(Bytes(assemble(rd.chunks, rd.total)))
            /\ UNCHANGED rd
       ELSE /\ rd' = IF skipsChunk(reader, Head(rd.rest))
                     THEN ReadLocals(Tail(rd.rest), rd.chunks, rd.total)
                     ELSE ReadLocals(Tail(rd.rest), Append(rd.chunks, Head(rd.rest)),
                                     rd.total + Len(Head(rd.rest)))
            /\ UNCHANGED <<rdpc, rawResult>>
    /\ NotReader

\* new Response(raw).arrayBuffer() comes back
ReaderFallback ==
    /\ rdpc = "fallback"
    /\ \E o \in FallbackOutcomes(rawBody) :
         rawResult' = fallbackResult(reader, o)
    /\ rdpc' = "done"
    /\ UNCHANGED rd
    /\ NotReader

\* ------------------------------------------- the components on their own
InitComponents ==
    /\ RouterIdle
    /\ HandlerIdle
    /\ ApiIdle
    /\ UploadIdle
    /\ \/ InitResolver /\ RenderIdle /\ ReaderIdle
       \/ ResolverIdle /\ InitRender /\ ReaderIdle
       \/ ResolverIdle /\ RenderIdle /\ InitReader

NextComponents ==
    \/ EventStart
    \/ ResolveAgain
    \/ OpenSettles
    \/ ListSettles
    \/ CreateSettles
    \/ Render
    \/ ReaderStart
    \/ ReaderRead
    \/ ReaderFallback

SpecComponents == InitComponents /\ [][NextComponents]_vars

\* ---------------------------------------------------- the handlers' inputs
KeyA == <<"a", "@", "b", ".", "c", "c">>
ToA == <<"A", "@", "b", ".", "c", "c">>
ToZ == <<"z", "@", "b", ".", "c", "c">>
AddrS == <<"s", "@", "y", ".", "d", "d">>
AddrF == <<"f", "@", "b", ".", "c", "c">>
Token == Str(<<"x", "o", "x", "b">>)

\* forwardTo lists: t, u, t, ... up to MaxTargets, and one naming t twice
TargetAt(i) == IF i % 2 = 1 THEN AddrT ELSE AddrU

ForwardLists ==
    { [i \in 1..n |-> TargetAt(i)] : n \in 0..MaxTargets } \cup {<<AddrT, AddrT>>}

ForwarderRoutes ==
    { Route(ts[1], ts[2], f) :
        ts \in { <<TypeChannel, Str(SlackC)>>, <<TypeDm, Str(SlackU)>>,
                 <<TypeDm, Str(SlackD)>>, <<TypeChannel, Undefined>> },
        f \in {Undefined} \cup { Array(l) : l \in ForwardLists } }

ForwarderTables ==
    { Object(<<[key |-> KeyA, value |-> r]>> \o fb \o fw) :
        r \in ForwarderRoutes,
        fb \in { <<>>, <<[key |-> FallbackKey, value |-> RouteTeam]>> },
        fw \in { <<>>, <<[key |-> ForwarderKey, value |-> Str(AddrF)]>>,
                 <<[key |-> ForwarderKey, value |-> Str(AddrS)]>> } }

ForwarderEnvs ==
    [ SLACK_BOT_TOKEN : {Undefined, Token},
      ROUTES_JSON : {Undefined, Json(FALSE, Null)}
                    \cup { Json(TRUE, t) : t \in ForwarderTables } ]

Oracles == [1..MaxTargets -> {"ok", "retry_ok", "fail"}]

InitForwarder ==
    /\ variant = "forwarder"
    /\ env \in ForwarderEnvs
    /\ message \in [to : {ToA, ToZ}, from : {AddrS}]
    /\ fwdOracle \in Oracles

\* ROUTES_JSON of the Slack-only handlers: a channel by id, by name, a DM, and
\* entries the handlers refuse
SlackRoutes ==
    { SlackRoute(TypeChannel, Str(SlackC), Undefined, Undefined),
      SlackRoute(TypeChannel, Str(SlackD), Undefined, Undefined),
      SlackRoute(TypeChannel, Undefined, Undefined, Str(<<"o", "p", "s">>)),
      SlackRoute(Str(<<"D", "M">>), Undefined, Str(SlackU), Undefined),
      SlackRoute(TypeDm, Undefined, Str(SlackU), Undefined),
      SlackRoute(TypeDm, Undefined, Undefined, Undefined) }

SlackTables == { Object(<<[key |-> KeyA, value |-> r]>>) : r \in SlackRoutes }

SlackEnvs ==
    [ SLACK_BOT_TOKEN : {Undefined, Token},
      ROUTES_JSON : {Undefined, Json(FALSE, Null)}
                    \cup { Json(TRUE, t) : t \in SlackTables } ]

\* envelope recipients: a routed address, an unrouted one, a plus-tagged one
\* and one no address can be read from
ToPlus == <<"a", "+", "x", "@", "b", ".", "c", "c">>
ToNone == <<"a", "b">>

SlackMessages ==
    [to : {ToA, ToZ, ToPlus, ToNone}, from : {AddrS}]
    \cup [to : {ToNone}, from : {AddrS}, headerTo : {Str(ToA)}]

InitStrict ==
    /\ variant = "strict"
    /\ env \in SlackEnvs
    /\ message \in SlackMessages
    /\ fwdOracle = [i \in 1..MaxTargets |-> "ok"]

DraftEnvs ==
    [ SLACK_BOT_TOKEN : {Undefined, Token},
      ROUTES_JSON : {Undefined}
                    \cup { Json(TRUE, t) : t \in ForwarderTables } ]

InitDraft ==
    /\ variant = "draft"
    /\ env \in DraftEnvs
    /\ message \in [to : {KeyA, ToZ}, from : {AddrS}]
    /\ fwdOracle = [i \in 1..MaxTargets |-> "ok"]

OptionSets ==
    {Undefined, Json(FALSE, Null)}
    \cup { Json(TRUE, o) : o \in [uploadTxtBody : BOOLEAN, uploadRawEml : BOOLEAN,
                                   stripPlusAddressing : BOOLEAN] }

InitPreview ==
    /\ variant = "preview"
    /\ \E e \in SlackEnvs, o \in OptionSets :
         env = [SLACK_BOT_TOKEN |-> e.SLACK_BOT_TOKEN, ROUTES_JSON |-> e.ROUTES_JSON,
                OPTIONS_JSON |-> o]
    /\ message \in SlackMessages
    /\ fwdOracle = [i \in 1..MaxTargets |-> "ok"]

Init ==
    /\ RouterIdle
    /\ ApiIdle
    /\ UploadIdle
    /\ ComponentsIdle
    /\ InitForwarder \/ InitStrict \/ InitDraft \/ InitPreview
    /\ missPolicy \in {"reject", "skip"}
    /\ hpc = "ready"
    /\ routeConfig = Undefined
    /\ idx = 0
    /\ hadForwardFailure = FALSE
    /\ rejects = <<>>
    /\ forwardCalls = <<>>
    /\ slackCalls = <<>>
    /\ registered = FALSE
    /\ tpc = "none"
    /\ tlocal = Undefined

Next ==
    \/ EmailForwarder
    \/ ForwardSettles
    \/ NotifyOpenSettles
    \/ NotifyPostSettles
    \/ EmailStrict
    \/ StrictOpenSettles
    \/ StrictRawSettles
    \/ StrictGetUrlSettles
    \/ StrictUploadSettles
    \/ StrictCompleteSettles
    \/ EmailDraft
    \/ DraftPostSettles
    \/ EmailPreview
    \/ PreviewResolveSettles
    \/ PreviewRawSettles
    \/ PreviewParseSettles
    \/ PreviewPostSettles
    \/ PreviewTxtSettles
    \/ PreviewEmlSettles

Spec == Init /\ [][Next]_vars

\* --------------------------------------------------------------- the claims
IsForwarder == variant = "forwarder"

\* the forward targets of the resolved route, <<>> when it has none
Targets ==
    IF Truthy(routeConfig) /\ Truthy(Prop(routeConfig, "forwardTo"))
    THEN routeConfig.forwardTo.items
    ELSE <<>>

\* The forward calls and their outcomes as the receiving system's answers
\* alone determine them, from target i on.
RECURSIVE ExpectedForwards(_, _)
ExpectedForwards(targets, i) ==
    IF i > Len(targets) THEN <<>>
    ELSE LET direct == ForwardCall(i, targets[i], Undefined)
             retry == ForwardCall(i, targets[i],
                                  Headers(JsString(Forwarder), message.from))
         IN  CASE fwdOracle[i] = "ok" ->
                    <<[direct EXCEPT !.outcome = "ok"]>> \o ExpectedForwards(targets, i + 1)
               [] fwdOracle[i] = "retry_ok" ->
                    <<[direct EXCEPT !.outcome = "rejected"],
                      [retry EXCEPT !.outcome = "ok"]>> \o ExpectedForwards(targets, i + 1)
               [] OTHER ->
                    <<[direct EXCEPT !.outcome = "rejected"],
                      [retry EXCEPT !.outcome = "rejected"]>>

ExpectedRejects ==
    IF Targets = <<>> THEN <<Reason("Unknown address")>>
    ELSE IF \E i \in 1..Len(Targets) : fwdOracle[i] = "fail"
    THEN <<Reason("Unable to forward this email")>>
    ELSE <<>>

SameCall(a, b) == a.pos = b.pos /\ a.target = b.target /\ a.headers = b.headers

\* C6: with a resolved route, the setReject calls and the forward attempts are
\* those the outcomes of the forward attempts alone determine, whatever the
\* Slack target resolution and the notification post did.
C6_SlackDoesNotDecide ==
    (IsForwarder /\ Truthy(routeConfig)) =>
        LET want == ExpectedForwards(Targets, 1)
        IN  /\ Len(forwardCalls) <= Len(want)
            /\ \A k \in 1..Len(forwardCalls) :
                  /\ SameCall(forwardCalls[k], want[k])
                  /\ forwardCalls[k].outcome \in {"pending", want[k].outcome}
            /\ hpc = "returned" => (forwardCalls = want /\ rejects = ExpectedRejects)
            /\ hpc # "returned" => rejects = <<>>

\* a Slack call of the event failed, and the message was forwarded unrejected
C6_Witness ==
    /\ IsForwarder
    /\ hpc = "returned"
    /\ tpc = "fulfilled"
    /\ \E k \in 1..Len(slackCalls) : slackCalls[k].result = "threw"
    /\ Len(forwardCalls) >= 2
    /\ rejects = <<>>

\* a Slack call of the event failed, and the message was rejected for its forwards
C6_WitnessRejected ==
    /\ IsForwarder
    /\ hpc = "returned"
    /\ tpc = "fulfilled"
    /\ \E k \in 1..Len(slackCalls) : slackCalls[k].result = "not_ok"
    /\ rejects = <<Reason("Unable to forward this email")>>

CallsAt(pos) == { k \in 1..Len(forwardCalls) : forwardCalls[k].pos = pos }

\* C8: a target whose direct attempt was rejected gets exactly one further
\* attempt, with From the rewritten sender (routes.forwarder) and Reply-To the
\* original sender; no target gets more than two attempts.
C8_OneRetry ==
    IsForwarder =>
        /\ \A k \in 1..Len(forwardCalls) :
              (forwardCalls[k].headers = Undefined /\ forwardCalls[k].outcome = "rejected")
                  => /\ k + 1 <= Len(forwardCalls)
                     /\ forwardCalls[k + 1].pos = forwardCalls[k].pos
                     /\ forwardCalls[k + 1].target = forwardCalls[k].target
                     /\ forwardCalls[k + 1].headers =
                            Headers(JsString(Forwarder), message.from)
                     /\ Cardinality(CallsAt(forwardCalls[k].pos)) = 2
        /\ \A pos \in 1..Len(Targets) : Cardinality(CallsAt(pos)) <= 2

C8_Witness ==
    /\ IsForwarder
    /\ hpc = "returned"
    /\ Len(forwardCalls) = 4
    /\ forwardCalls[1].outcome = "rejected"
    /\ forwardCalls[2].headers = Headers(AddrF, AddrS)
    /\ forwardCalls[2].outcome = "ok"
    /\ forwardCalls[4].outcome = "rejected"

NoAlternateSender == ~Truthy(Forwarder) \/ JsString(Forwarder) = message.from

\* C9: with no alternate sender configured, or one equal to the original
\* sender, a rejected direct attempt is not retried and the message is rejected.
C9_NoSenderNoRetry ==
    (IsForwarder /\ NoAlternateSender) =>
        /\ \A k \in 1..Len(forwardCalls) : forwardCalls[k].headers = Undefined
        /\ (\E k \in 1..Len(forwardCalls) : forwardCalls[k].outcome = "rejected")
              => (hpc = "returned"
                  /\ rejects = <<Reason("Unable to forward this email")>>)

BothFailed(pos) ==
    /\ \E k \in CallsAt(pos) :
          forwardCalls[k].headers = Undefined /\ forwardCalls[k].outcome = "rejected"
    /\ \E k \in CallsAt(pos) :
          forwardCalls[k].headers # Undefined /\ forwardCalls[k].outcome = "rejected"

Delivered(pos) == \E k \in CallsAt(pos) : forwardCalls[k].outcome = "ok"

\* C10: with a non-empty forward list, the handler rejects with "Unable to
\* forward this email" exactly when some target's direct attempt and its retry
\* both failed; when every target succeeded, directly or on its retry, the
\* message is not rejected at all.
C10_RejectIffBothFail ==
    (IsForwarder /\ Targets # <<>>) =>
        /\ (\E n \in 1..Len(rejects) : rejects[n] = Reason("Unable to forward this email"))
              <=> (\E pos \in 1..Len(Targets) : BothFailed(pos))
        /\ (hpc = "returned" /\ ~\E pos \in 1..Len(Targets) : BothFailed(pos))
              => (rejects = <<>> /\ \A pos \in 1..Len(Targets) : Delivered(pos))
        /\ (\A pos \in 1..Len(Targets) : Delivered(pos)) => rejects = <<>>

C10_Witness ==
    /\ IsForwarder
    /\ hpc = "returned"
    /\ Len(Targets) = 2
    /\ Delivered(1)
    /\ BothFailed(2)
    /\ rejects = <<Reason("Unable to forward this email")>>

C10_WitnessRetried ==
    /\ IsForwarder
    /\ hpc = "returned"
    /\ Len(Targets) = 2
    /\ Len(forwardCalls) = 4
    /\ Delivered(1)
    /\ Delivered(2)
    /\ hadForwardFailure
    /\ rejects = <<>>

\* ------------------------------------------------ routing misses, the token
\* the recipient the handler looks up in ROUTES_JSON
Recipient ==
    CASE variant = "strict" -> getPrimaryRecipient(message)
      [] variant = "preview" ->
            getPrimaryRecipientOpt(message, Options.stripPlusAddressing)
      [] OTHER -> message.to

\* no key of ROUTES_JSON but the reserved one normalizes to the recipient,
\* and no fallback entry exists
RoutingMiss ==
    /\ \A i \in 1..Len(EnvRoutes.entries) :
          EnvRoutes.entries[i].key # FallbackKey
              => normalizeAddress(EnvRoutes.entries[i].key) # normalizeAddress(Recipient)
    /\ \A i \in 1..Len(EnvRoutes.entries) : EnvRoutes.entries[i].key # FallbackKey

\* the reasons that tell the sender the recipient does not exist
IsNoSuchRecipient(r) ==
    r = Reason("Unknown address") \/ r = NoSuchRecipient(Recipient)

\* C3: when the recipient has no matching route and no fallback exists, the
\* handler rejects the message with a "no such recipient" reason and issues
\* no Slack call and no forward call for the event.
C3_MissRejects ==
    (variant \in {"forwarder", "strict"} /\ hpc = "returned" /\ RoutingMiss) =>
        /\ Len(rejects) = 1
        /\ IsNoSuchRecipient(rejects[1])
        /\ slackCalls = <<>>
        /\ forwardCalls = <<>>

\* C4: on a routing miss the deployment's configuration selects between
\* rejecting the message and returning without a rejection: the handler calls
\* setReject exactly when the configured policy is "reject".
C4_MissPolicyDecides ==
    (variant \in {"forwarder", "preview"} /\ hpc = "returned" /\ RoutingMiss) =>
        (rejects # <<>> <=> missPolicy = "reject")

\* the rejections of the strict handler that do not rest on the token: one
\* for an unrouted recipient, none otherwise
StrictRoutingRejects ==
    IF Truthy(GetKey(EnvRoutes, Recipient)) THEN <<>>
    ELSE <<NoSuchRecipient(Recipient)>>

\* C5: with SLACK_BOT_TOKEN absent the handler issues no Slack call, rejects
\* nothing on that ground (its rejections are those the routing and the
\* forward outcomes determine), and the configured forwards still take place.
C5_NoTokenNoReject ==
    (variant \in {"forwarder", "strict"} /\ ~Truthy(env.SLACK_BOT_TOKEN)) =>
        /\ slackCalls = <<>>
        /\ ~registered
        /\ (IsForwarder /\ hpc = "returned")
              => /\ forwardCalls = ExpectedForwards(Targets, 1)
                 /\ rejects = ExpectedRejects
        /\ (variant = "strict" /\ hpc = "returned") => rejects = StrictRoutingRejects

\* C7: a task registered with ctx.waitUntil never settles as a rejected
\* promise, whatever the calls inside it returned or raised.
C7_TasksNeverReject == registered => tpc # "rejected"

\* ------------------------------------------------- the order of the forwards
\* C11: a forward call with rewritten headers follows, in the same event, a
\* rejected call for the same target that carried no header override, and the
\* first call for every target carries none.
C11_RewriteOnlyAfterRejection ==
    IsForwarder =>
        /\ \A k \in 1..Len(forwardCalls) :
              forwardCalls[k].headers # Undefined
                  => /\ k > 1
                     /\ forwardCalls[k - 1].pos = forwardCalls[k].pos
                     /\ forwardCalls[k - 1].target = forwardCalls[k].target
                     /\ forwardCalls[k - 1].headers = Undefined
                     /\ forwardCalls[k - 1].outcome = "rejected"
        /\ \A pos \in 1..Len(Targets) :
              CallsAt(pos) # {} => forwardCalls[MinOf(CallsAt(pos))].headers = Undefined

C11_Witness ==
    /\ IsForwarder
    /\ Len(forwardCalls) = 3
    /\ forwardCalls[1].outcome = "ok"
    /\ forwardCalls[2].outcome = "rejected"
    /\ forwardCalls[3].headers = Headers(AddrF, AddrS)
    /\ forwardCalls[3].pos = 2

\* C12: the targets are taken in the configured order, one after another: a
\* call is issued only when every earlier call has settled, the calls of a
\* target come after those of every earlier target, and a later target is
\* reached only over delivered earlier ones.
C12_OneTargetAtATime ==
    IsForwarder =>
        /\ \A k \in 1..Len(forwardCalls) :
              /\ forwardCalls[k].outcome = "pending" => k = Len(forwardCalls)
              /\ forwardCalls[k].pos \in 1..Len(Targets)
              /\ forwardCalls[k].target = Targets[forwardCalls[k].pos]
              /\ k < Len(forwardCalls)
                    => forwardCalls[k + 1].pos \in
                          {forwardCalls[k].pos, forwardCalls[k].pos + 1}
        /\ forwardCalls # <<>> => forwardCalls[1].pos = 1
        /\ \A pos \in 1..Len(Targets) :
              CallsAt(pos) # {} => \A q \in 1..(pos - 1) : Delivered(q)

C12_Witness ==
    /\ IsForwarder
    /\ Len(forwardCalls) = 4
    /\ forwardCalls[4].outcome = "pending"
    /\ forwardCalls[3].pos = 2
    /\ forwardCalls[1].target # forwardCalls[3].target

\* email() of a forwarding handler is over
HandlerDone == variant \in {"forwarder", "draft"} /\ hpc \in {"returned", "threw"}

NoneInFlight == \A k \in 1..Len(forwardCalls) : forwardCalls[k].outcome # "pending"

FailureRejected ==
    (\E pos \in 1..Len(Targets) : BothFailed(pos))
        => Reason("Unable to forward this email") \in { rejects[n] : n \in 1..Len(rejects) }

\* C13: email() does not return while a forward call is unsettled, a failed
\* forwarding is turned into setReject by the time it returns and nothing is
\* rejected afterwards; the Slack task may still run then.
C13_RejectBeforeReturn ==
    /\ [](HandlerDone => (NoneInFlight /\ FailureRejected))
    /\ [][HandlerDone => rejects' = rejects]_vars

\* the handler has returned its rejection while the Slack task still runs
C13_Witness ==
    /\ IsForwarder
    /\ hpc = "returned"
    /\ tpc \in {"open", "post"}
    /\ \E pos \in 1..Len(Targets) : BothFailed(pos)
    /\ rejects = <<Reason("Unable to forward this email")>>

\* ------------------------------------------------------------------ C14
PhasesOf(log) == [i \in 1..Len(log) |-> log[i].phase]

\* C14: in every upload call with a buffer of L bytes the slot request
\* declares a length that reads back as exactly L, and the byte transfer
\* carries that same buffer.
C14_DeclaredLengthIsBufferLength ==
    \A i \in 1..Len(upLog) :
        /\ upLog[i].phase = "files.getUploadURLExternal" =>
               /\ upLog[i].length.kind = "str"
               /\ Number(upLog[i].length.s) = Num(byteLength(bytes))
        /\ upLog[i].phase = "upload" => upLog[i].body = bytes

C14_Witness ==
    /\ upc = "finalize"
    /\ byteLength(bytes) = MaxBytes
    /\ upLog[1].length = Str(Decimal(MaxBytes))
    /\ upLog[2].body = bytes

\* ------------------------------------------------------------------ C15
UploadOrder ==
    <<"files.getUploadURLExternal", "upload", "files.completeUploadExternal">>

\* C15: the phases run in the order slot request, byte transfer, finalize;
\* a call that ended returned true or false, true only after all three
\* phases; finalize names the file id of phase 1 and the resolved channel.
C15_ThreePhasesOrFalse ==
    /\ PhasesOf(upLog) = SubSeq(UploadOrder, 1, Len(upLog))
    /\ upc = "done" => upResult \in {Returned(True), Returned(False)}
    /\ upResult = Returned(True) => Len(upLog) = 3
    /\ Len(upLog) = 3 => upLog[3].id = slot.file_id /\ upLog[3].channel_id = channel

\* what of C15 the upload keeps: the order, the abort, and the finalize fields
UploadAbortsInOrder ==
    /\ PhasesOf(upLog) = SubSeq(UploadOrder, 1, Len(upLog))
    /\ upc = "done" /\ ~upResult.threw =>
           upResult \in {Returned(True), Returned(False)}
    /\ upResult = Returned(True) => Len(upLog) = 3
    /\ Len(upLog) = 3 => upLog[3].id = slot.file_id /\ upLog[3].channel_id = channel

\* ------------------------------------------------------------------ C16
\* C16: no slot request is issued for a payload of zero bytes.
C16_EmptyPayloadNoRequest ==
    \A i \in 1..Len(slackCalls) :
        slackCalls[i].endpoint = "files.getUploadURLExternal" => slackCalls[i].arg # 0

\* uploadBytesToSlack of the preview handler does short-circuit
UploadEmptyShortCircuits ==
    byteLength(bytes) = 0 /\ upc \notin {"idle", "start"} =>
        /\ upc = "done"
        /\ upResult = Returned(False)
        /\ upLog = <<>>
        /\ ApiIdle

\* ------------------------------------------------------------------ C17
LoopClients == {"slackApiJson", "slackApiForm"}

IsResponse(e) == e.ev = "response" /\ e.r.net = "ok"

NonJson(e) == IsResponse(e) /\ ~e.r.body.json

ClassifiedNonJson ==
    /\ apc = "done"
    /\ ~apiResult.threw
    /\ apiResult.value.ok = "false"
    /\ apiResult.value.error = Str(ErrNonJson)

\* a 429 before the last attempt, which the loop answers with a sleep
RetriedRateLimit(e) ==
    client \in LoopClients /\ e.r.status = 429 /\ e.attempt < retries

\* C17 as stated: every response with a non-JSON body makes the call return
\* ok = false, error = "non_json_response", whatever its status.
C17_NonJsonAnyStatus ==
    \A i \in 1..Len(apiLog) : NonJson(apiLog[i]) => ClassifiedNonJson

\* C17: every response with a non-JSON body, other than a 429 that the loop
\* answers with a retry, makes the call return ok = false with error
\* "non_json_response", and the call raises nothing.
C17_NonJsonClassified ==
    \A i \in 1..Len(apiLog) :
        NonJson(apiLog[i]) /\ ~RetriedRateLimit(apiLog[i]) => ClassifiedNonJson

C17_Witness ==
    /\ client = "slackApiForm"
    /\ apc = "done"
    /\ attempt = retries
    /\ NonJson(apiLog[Len(apiLog)])
    /\ apiLog[Len(apiLog)].r.status = 429
    /\ apiResult.value.error = Str(ErrNonJson)

\* ------------------------------------------------------------------ C18
LastEvent == apiLog[Len(apiLog)]

BodyOk(e) ==
    /\ IsResponse(e)
    /\ e.r.body.json
    /\ e.r.body.value # Null
    /\ e.r.body.value.ok = "true"

BodyNotOk(e) ==
    /\ IsResponse(e)
    /\ e.r.body.json
    /\ e.r.body.value # Null
    /\ e.r.body.value.ok = "false"

\* C18: a call returns ok = true only when its final response parsed as JSON
\* with ok true; a final body reporting ok = false makes the call return
\* ok = false with the body's error code, HTTP 200 included.
C18_OkOnlyFromBody ==
    apc = "done" =>
        /\ ~apiResult.threw /\ apiResult.value # Null /\ apiResult.value.ok = "true" =>
               BodyOk(LastEvent)
        /\ client \in LoopClients /\ BodyNotOk(LastEvent) =>
               /\ ~apiResult.threw
               /\ apiResult.value.ok = "false"
               /\ apiResult.value.error = LastEvent.r.body.value.error

C18_Witness ==
    /\ client = "slackApiJson"
    /\ apc = "done"
    /\ BodyNotOk(LastEvent)
    /\ LastEvent.r.status = 200
    /\ apiResult.value.ok = "false"
    /\ apiResult.value.error = Str(ErrChannel)

\* ------------------------------------------------------------------ C19
TransientCodes == {ErrRatelimited, ErrTimeout, ErrInternal, ErrUnavailable, ErrFatal}

TransientCode(e) ==
    /\ BodyNotOk(e)
    /\ e.r.body.value.error.kind = "str"
    /\ toLowerCase(e.r.body.value.error.s) \in TransientCodes

\* the response is one the retry policy names: HTTP 429 or a transient code
Retryable(e) == IsResponse(e) /\ (e.r.status = 429 \/ TransientCode(e))

ResponsesOf(log) == { i \in 1..Len(log) : log[i].ev = "response" }

\* C19: a call whose attempts, up to the ceiling, all ended in a retryable
\* response returns {ok:false, error:"retries_exhausted"}.
C19_ExhaustionReported ==
    /\ client \in LoopClients
    /\ apc = "done"
    /\ Cardinality(ResponsesOf(apiLog)) = retries + 1
    /\ \A i \in ResponsesOf(apiLog) : Retryable(apiLog[i])
    => apiResult = Returned(Exhausted)

\* what the loop does instead: "retries_exhausted" is never returned
NeverExhausted == apiResult # Returned(Exhausted)

CallsOf(e, k, method) ==
    { i \in 1..Len(rcalls) :
        rcalls[i].event = e /\ rcalls[i].k = k /\ rcalls[i].method = method }

OpensOf(e, user) ==
    { i \in 1..Len(rcalls) :
        /\ rcalls[i].event = e
        /\ rcalls[i].method = "conversations.open"
        /\ rcalls[i].arg = user }

\* C21: within one event at most one conversations.open call is issued for
\* one user id, however often the event resolves that user.
C21_OneOpenPerUser ==
    \A e \in DOMAIN evs : Cardinality(OpensOf(e, UserU)) <= 1

\* ------------------------------------------------------------------ C22
UpperAlnum == (Upper \cup {"G", "U"}) \cup Digits

\* C or G followed by uppercase alphanumerics
ValidShape(id) ==
    /\ id.kind = "str"
    /\ Len(id.s) >= 2
    /\ id.s[1] \in {"C", "G"}
    /\ \A i \in 2..Len(id.s) : id.s[i] \in UpperAlnum

\* C22: the resolution of a channel route whose id has the valid shape
\* returns that id and issues no call.
C22_ValidIdReturned ==
    \A e \in DOMAIN evs : \A k \in 1..Len(evs[e].out) :
        evs[e].out[k].route.type = TypeChannel /\ ValidShape(evs[e].out[k].route.id) =>
            /\ evs[e].out[k].result = Returned(evs[e].out[k].route.id)
            /\ \A i \in 1..Len(rcalls) : ~(rcalls[i].event = e /\ rcalls[i].k = k)

C22_Witness ==
    /\ evs # <<>>
    /\ evs[1].pc = "done"
    /\ Len(evs[1].out) = 1
    /\ evs[1].out[1].route.name = Str(<<"a", "b">>)
    /\ evs[1].out[1].result = Returned(Str(<<"G", "A", "9">>))
    /\ rcalls = <<>>

\* ------------------------------------------------------------------ C23
\* the descriptor of resolution k of event e, finished or under way
DescriptorOf(e, k) ==
    IF k <= Len(evs[e].out) THEN evs[e].out[k].route ELSE Head(evs[e].todo)

\* the sanitized names of the descriptors given by name
ExpectedName(route) ==
    IF route.name = Str(<<"A", "b", " ", "c">>) THEN <<"a", "b", "-", "c">>
    ELSE IF route.name = Str(<<"#", "a", "b", "-", "c", "!">>) THEN <<"a", "b", "-", "c">>
    ELSE <<>>

\* the listing of resolution k of event e was followed to its end, no match
ListedToEnd(e, k) ==
    /\ CallsOf(e, k, "conversations.list") # {}
    /\ \A i \in CallsOf(e, k, "conversations.list") : rcalls[i].result \in {"more", "end"}
    /\ \E i \in CallsOf(e, k, "conversations.list") : rcalls[i].result = "end"

\* C23: when the listing ended without a match and creation is permitted,
\* exactly one conversations.create call is issued, with the sanitized name;
\* the id it returns is the result and the cache's value for that name.
C23_CreatedOnceAndCached ==
    \A e \in DOMAIN evs : \A k \in 1..evs[e].k :
        allowCreate /\ ListedToEnd(e, k) =>
            /\ Cardinality(CallsOf(e, k, "conversations.create")) = 1
            /\ \A i \in CallsOf(e, k, "conversations.create") :
                 /\ rcalls[i].arg = Str(ExpectedName(DescriptorOf(e, k)))
                 /\ rcalls[i].result = "ok_id" =>
                      /\ evs[e].out[k].result = Returned(Str(CreatedChannel))
                      /\ MapGet(heap[evs[e].cache], CacheKey(ExpectedName(DescriptorOf(e, k))))
                           = Str(CreatedChannel)

C23_Witness ==
    /\ evs # <<>>
    /\ allowCreate
    /\ evs[1].pc = "done"
    /\ Len(evs[1].out) = 1
    /\ evs[1].out[1].route.name = Str(<<"#", "a", "b", "-", "c", "!">>)
    /\ evs[1].out[1].result = Returned(Str(CreatedChannel))
    /\ Len(rcalls) = 3
    /\ rcalls[1].result = "more"
    /\ rcalls[2].result = "end"
    /\ rcalls[3].arg = Str(<<"a", "b", "-", "c">>)

\* ------------------------------------------------------------------ C24
\* C24: no resolution raises: each returns a channel id or null.
C24_ResolveNeverRaises ==
    \A e \in DOMAIN evs : \A k \in 1..Len(evs[e].out) : ~evs[e].out[k].result.threw

\* ------------------------------------------------------------------ C25
Started(e) == evs[e].cache # 0

\* C25: each event reads and writes only the cache it made: two events never
\* share a Map, every lookup goes to the event's own Map, and an entry is
\* only ever found by the event that wrote it.
C25_CachePerEvent ==
    /\ \A e \in DOMAIN evs : \A f \in DOMAIN evs :
         Started(e) /\ Started(f) /\ e # f => evs[e].cache # evs[f].cache
    /\ \A i \in 1..Len(reads) :
         /\ reads[i].cell = evs[reads[i].event].cache
         /\ reads[i].hit => reads[i].by = reads[i].event
    /\ \A e \in DOMAIN evs :
         Started(e) => \A j \in 1..Len(heap[evs[e].cache]) : heap[evs[e].cache][j].by = e

C25_Witness ==
    \E i \in 1..Len(reads) :
        /\ reads[i].elsewhere
        /\ ~reads[i].hit
        /\ evs[reads[i].event].pc = "list"
        /\ \E e \in DOMAIN evs :
             /\ e # reads[i].event
             /\ evs[e].pc = "done"
             /\ MapGet(heap[evs[e].cache], reads[i].key) = Str(CreatedChannel)

\* ------------------------------------------------------------------ C26
\* C26: the clamped preview has at most 2500 characters, and the mrkdwn text
\* of every rendered block at most 3000.
C26_WithinBudget ==
    rendered # Undefined =>
        /\ TextLen(rendered.bodyPreview) <= 2500
        /\ \A i \in 1..Len(rendered.blocks) : TextLen(rendered.blocks[i].text) <= 3000

C26_Witness ==
    /\ rendered # Undefined
    /\ TextLen(mail.bodyText) = 2501
    /\ mail.bodyText[1].s = <<"&">>
    /\ TextLen(rendered.bodyPreview) = 2500
    /\ rendered.bodyPreview[Len(rendered.bodyPreview)].s = <<Ellipsis>>
    /\ Len(rendered.blocks) = 5
    /\ TextLen(rendered.blocks[1].text) = 3000
    /\ TextLen(rendered.blocks[5].text) = 3000

\* ------------------------------------------------------------------ C27
\* the task of the preview handler has parsed the message, and the parse
\* raised or gave neither text nor html
ParsedUnreadable ==
    /\ variant = "preview"
    /\ tlocal # Undefined
    /\ tlocal.parsed \in {"threw", "empty"}

EndpointCalls(endpoint) ==
    { i \in 1..Len(slackCalls) : slackCalls[i].endpoint = endpoint }

\* C27: when the MIME parse fails or yields neither text nor html the task
\* goes on: the preview is the "no readable body" marker, chat.postMessage is
\* called, and a task that ends without chat.postMessage having raised has
\* called the raw .eml upload (asked for by the options, on a payload that is
\* not empty).
C27_UnreadableStillPosts ==
    ParsedUnreadable =>
        /\ EndpointCalls("chat.postMessage") # {}
        /\ tlocal.bodyPreview = NoReadableBody
        /\ ~tlocal.bodyText
        /\ ( /\ tpc = "fulfilled"
             /\ Options.uploadRawEml
             /\ tlocal.rawBytes > 0
             /\ \A i \in EndpointCalls("chat.postMessage") :
                    slackCalls[i].result # "threw" )
              => EndpointCalls("uploadBytesToSlack.eml") # {}

\* the parse raised, the notification was posted and the raw upload is under way
C27_Witness ==
    /\ variant = "preview"
    /\ tlocal # Undefined
    /\ tlocal.parsed = "threw"
    /\ tlocal.bodyPreview = NoReadableBody
    /\ tpc = "eml"
    /\ EndpointCalls("chat.postMessage") # {}
    /\ EndpointCalls("uploadBytesToSlack.txt") = {}
    /\ slackCalls[Len(slackCalls)].endpoint = "uploadBytesToSlack.eml"

\* ------------------------------------------------------------------ C28
\* C28: within one event no forwarding address is attempted at two places of
\* the forwardTo list: the places that have forward calls name distinct
\* addresses (a retry with rewritten headers belongs to the place it retries).
C28_EachAddressOnce ==
    IsForwarder =>
        \A p, q \in 1..Len(Targets) :
            (CallsAt(p) # {} /\ CallsAt(q) # {} /\ Targets[p] = Targets[q]) => p = q

\* ------------------------------------------------------------------ C29
\* the sleeps of the call that answer an HTTP 429
RateLimitSleeps ==
    { i \in 2..Len(apiLog) :
        /\ apiLog[i].ev = "sleep"
        /\ apiLog[i - 1].ev = "response"
        /\ apiLog[i - 1].r.net = "ok"
        /\ apiLog[i - 1].r.status = 429 }

\* C29: every sleep that answers an HTTP 429 lasts between 1 and 10 seconds,
\* whatever the retry-after header of the response holds.
C29_RateLimitSleepBounded ==
    \A i \in RateLimitSleeps : timerDelay(apiLog[i].ms) \in 1000..10000

\* ------------------------------------------------------------------ C30
EventsOf(ev) == { i \in 1..Len(apiLog) : apiLog[i].ev = ev }

\* the sleeps of the call that answer a transient error code
TransientSleeps == EventsOf("sleep") \ RateLimitSleeps

\* C30: one call issues at most 3 requests and at most 2 sleeps; the requests
\* carry the attempts 0, 1, 2 in order whatever kind of retry led to them, a
\* sleep is always followed by a further request (no sleep at the last
\* attempt), the response to the last attempt ends the call, and the sleep
\* that answers a transient error code at attempt k lasts 600 * (k + 1) ms.
C30_BoundedRetries ==
    /\ Cardinality(EventsOf("request")) <= retries + 1
    /\ Cardinality(EventsOf("sleep")) <= retries
    /\ \A i \in EventsOf("request") :
          apiLog[i].attempt = Cardinality({ j \in EventsOf("request") : j < i })
    /\ \A i \in EventsOf("sleep") :
          /\ apiLog[i].attempt < retries
          /\ apiLog[i].attempt = apiLog[i - 1].attempt
          /\ i < Len(apiLog) => /\ apiLog[i + 1].ev = "request"
                                /\ apiLog[i + 1].attempt = apiLog[i].attempt + 1
    /\ \A i \in TransientSleeps :
          apiLog[i].ms = Num(600 * (apiLog[i].attempt + 1))
    /\ \A i \in EventsOf("response") :
          apiLog[i].attempt = retries => apc = "done"
    /\ apc = "sleep" => apiLog[Len(apiLog)].ev = "sleep"

\* a call of three requests and two sleeps, the first sleep after a 429 and
\* the second, of 1200 ms, after a transient error code; the call has returned
C30_Witness ==
    /\ apc = "done"
    /\ Len(apiLog) = 8
    /\ 3 \in RateLimitSleeps
    /\ 6 \in TransientSleeps
    /\ apiLog[6].ms = Num(1200)
    /\ apiLog[7] = Request(2)
    /\ apiLog[8].ev = "response"
    /\ apiResult # Undefined

\* ------------------------------------------------------------------ C31
\* the calls of resolution k of event e
ResolutionCalls(e, k) ==
    { i \in 1..Len(rcalls) : rcalls[i].event = e /\ rcalls[i].k = k }

\* a channel route that carries an id without the channel-id shape
InvalidIdRoute(route) ==
    route.type = TypeChannel /\ Truthy(route.id) /\ ~ValidShape(route.id)

\* C31: the resolution of a channel route whose explicit id does not have the
\* channel-id shape issues no call and, once over, has returned null, with a
\* channel name in the route or without.
C31_InvalidIdFails ==
    \A e \in DOMAIN evs : \A k \in 1..evs[e].k :
        InvalidIdRoute(DescriptorOf(e, k)) =>
            /\ ResolutionCalls(e, k) = {}
            /\ k <= Len(evs[e].out) => evs[e].out[k].result = Returned(Null)

\* ------------------------------------------------------------------ C32
\* every page of the listing of resolution k of event e came back, none of
\* them with a match, and the listing is over
NoListedMatch(e, k) ==
    /\ CallsOf(e, k, "conversations.list") # {}
    /\ \A i \in CallsOf(e, k, "conversations.list") :
          rcalls[i].result \in {"more", "end", "not_ok"}
    /\ \E i \in CallsOf(e, k, "conversations.list") :
          rcalls[i].result \in {"end", "not_ok"}

\* C32: with creation disallowed, a by-name resolution whose listing gave no
\* match has returned null, and no conversations.create call is ever issued.
C32_NoCreateWhenDisallowed ==
    ~allowCreate =>
        /\ \A i \in 1..Len(rcalls) : rcalls[i].method # "conversations.create"
        /\ \A e \in DOMAIN evs : \A k \in 1..evs[e].k :
              NoListedMatch(e, k) =>
                  /\ k <= Len(evs[e].out)
                  /\ evs[e].out[k].result = Returned(Null)

\* creation is disallowed and a listing of two pages ended without a match
C32_Witness ==
    /\ evs # <<>>
    /\ ~allowCreate
    /\ evs[1].pc = "done"
    /\ Len(evs[1].out) = 1
    /\ evs[1].out[1].route.name = Str(<<"A", "b", " ", "c">>)
    /\ evs[1].out[1].result = Returned(Null)
    /\ Len(rcalls) = 2
    /\ rcalls[1].result = "more"
    /\ rcalls[2].result = "end"

\* ------------------------------------------------------------------ C33
\* a channel route that is resolved by its name
ByName(route) ==
    /\ route.type = TypeChannel
    /\ ~(Truthy(route.id) /\ ValidShape(route.id))
    /\ ExpectedName(route) # <<>>

\* C33: when an event resolves a name it has resolved before, the later
\* resolution issues no conversations.list and no conversations.create call
\* and returns what the first one returned, null included.
C33_SecondResolutionFromCache ==
    \A e \in DOMAIN evs : \A k \in 1..evs[e].k : \A j \in 1..(k - 1) :
        ( /\ ByName(DescriptorOf(e, j))
          /\ ByName(DescriptorOf(e, k))
          /\ ExpectedName(DescriptorOf(e, j)) = ExpectedName(DescriptorOf(e, k)) )
        => /\ ResolutionCalls(e, k) = {}
           /\ k <= Len(evs[e].out)
           /\ evs[e].out[k].result = evs[e].out[j].result

\* an event resolved two spellings of one name: the first ended in null after
\* a listing without a match, the second returned null with no further call
C33_Witness ==
    /\ evs # <<>>
    /\ ~allowCreate
    /\ evs[1].pc = "done"
    /\ Len(evs[1].out) = 2
    /\ evs[1].out[1].route.name = Str(<<"A", "b", " ", "c">>)
    /\ evs[1].out[2].route.name = Str(<<"#", "a", "b", "-", "c", "!">>)
    /\ evs[1].out[1].result = Returned(Null)
    /\ evs[1].out[2].result = Returned(Null)
    /\ Len(rcalls) = 1
    /\ rcalls[1].result = "end"
    /\ Len(reads) = 2
    /\ reads[2].hit

\* ------------------------------------------------------------------ C34
\* the conversations.list calls of resolution k of event e issued before call i
ListedBefore(e, k, i) == { j \in CallsOf(e, k, "conversations.list") : j < i }

\* the answer is a page
IsPage(r) == r # Undefined /\ ~r.threw /\ r.value.ok

\* the page holds a channel of the wanted name with an id
PageMatches(r) == r.value.channel # Undefined /\ r.value.channel.id # Undefined

\* the page returns a cursor for a next page
PageHasNext(r) == r.value.cursor \notin {Undefined, Str(<<>>)}

\* C34: the first conversations.list request of a resolution carries no
\* cursor and each later one the cursor the page before it returned, that
\* page having had no match; a page with a match ends the listing and its
\* channel id is the result; a page without a match ends the listing exactly
\* when it returns no cursor.
C34_CursorFollowed ==
    \A e \in DOMAIN evs : \A k \in 1..evs[e].k :
    \A i \in CallsOf(e, k, "conversations.list") :
        /\ ListedBefore(e, k, i) = {} => rcalls[i].arg = Undefined
        /\ ListedBefore(e, k, i) # {} =>
              \E j \in {MaxOf(ListedBefore(e, k, i))} :
                  /\ IsPage(rcalls[j].answer)
                  /\ ~PageMatches(rcalls[j].answer)
                  /\ PageHasNext(rcalls[j].answer)
                  /\ rcalls[i].arg = rcalls[j].answer.value.cursor
        /\ IsPage(rcalls[i].answer) =>
              IF PageMatches(rcalls[i].answer)
              THEN /\ i = MaxOf(CallsOf(e, k, "conversations.list"))
                   /\ k <= Len(evs[e].out)
                   /\ evs[e].out[k].result = Returned(rcalls[i].answer.value.channel.id)
              ELSE IF PageHasNext(rcalls[i].answer)
              THEN i < MaxOf(CallsOf(e, k, "conversations.list"))
              ELSE i = MaxOf(CallsOf(e, k, "conversations.list"))

\* a listing of two pages: the second request carries the cursor of the
\* first page, the second page has the channel and a cursor, and no third
\* page is requested
C34_Witness ==
    /\ evs # <<>>
    /\ evs[1].pc = "done"
    /\ Len(rcalls) = 2
    /\ rcalls[1].answer = Returned(ListPage(TRUE, Channel(Undefined), CursorB))
    /\ rcalls[2].arg = CursorB
    /\ rcalls[2].answer = Returned(ListPage(TRUE, Channel(Str(ListedChannel)), CursorA))
    /\ evs[1].out[1].result = Returned(Str(ListedChannel))

\* ------------------------------------------------------------------ C40
\* conversations.list answered { ok: false }
ListFailed(r) == r # Undefined /\ ~r.threw /\ ~r.value.ok

\* C40: a conversations.list request that comes back failed ends the listing
\* like a last page without a match: no further page is requested; with
\* creation permitted one conversations.create call follows, with creation
\* disallowed the resolution returns null and null is cached under the name.
C40_FailedListIsNoMatch ==
    \A e \in DOMAIN evs : \A k \in 1..evs[e].k :
    \A i \in CallsOf(e, k, "conversations.list") :
        ListFailed(rcalls[i].answer) =>
            /\ i = MaxOf(CallsOf(e, k, "conversations.list"))
            /\ IF allowCreate
               THEN /\ Cardinality(CallsOf(e, k, "conversations.create")) = 1
                    /\ \A c \in CallsOf(e, k, "conversations.create") :
                          c > i /\ rcalls[c].arg = Str(ExpectedName(DescriptorOf(e, k)))
               ELSE /\ CallsOf(e, k, "conversations.create") = {}
                    /\ k <= Len(evs[e].out)
                    /\ evs[e].out[k].result = Returned(Null)
                    /\ MapHas(heap[evs[e].cache], CacheKey(ExpectedName(DescriptorOf(e, k))))
                    /\ MapGet(heap[evs[e].cache], CacheKey(ExpectedName(DescriptorOf(e, k))))
                          = Null

\* the first page returned a cursor, the request for the second page failed,
\* and the channel is being created
C40_Witness ==
    /\ evs # <<>>
    /\ allowCreate
    /\ evs[1].pc = "create"
    /\ Len(rcalls) = 3
    /\ PageHasNext(rcalls[1].answer)
    /\ ListFailed(rcalls[2].answer)
    /\ rcalls[3].method = "conversations.create"
    /\ rcalls[3].result = "pending"

\* ------------------------------------------------------------------ C35
\* the last character of a text that is not empty
LastChar(t) == t[Len(t)].s[Len(t[Len(t)].s)]

\* a rendered text made from the escaped text `full`: cut and ending with the
\* ellipsis, or `full` unchanged
CutIsMarked(text, full) ==
    IF TextLen(text) < TextLen(full) THEN LastChar(text) = Ellipsis ELSE text = full

\* the label of a field and the escaped header text after it
FieldSource(label, header) ==
    Lit(<<"*">> \o label \o <<"*", "\n">>) \o escapeSlackMrkdwn(header)

PreviewSource == escapeSlackMrkdwn(TextTrim(mail.bodyText))

\* the preview of a body that is not blank is cut and marked, or unchanged
PreviewCutIsMarked ==
    TextLen(TextTrim(mail.bodyText)) > 0 =>
        /\ CutIsMarked(rendered.bodyPreview, PreviewSource)
        /\ TextLen(rendered.bodyPreview) < TextLen(PreviewSource) =>
              /\ TextLen(rendered.bodyPreview) = SLACK_PREVIEW_LIMIT
              /\ TextSlice(rendered.bodyPreview, SLACK_PREVIEW_LIMIT - 1)
                    = TextSlice(PreviewSource, SLACK_PREVIEW_LIMIT - 1)

FieldIsCut(text, full) ==
    /\ text = TextSlice(full, SLACK_BLOCK_TEXT_LIMIT)
    /\ TextLen(full) > SLACK_BLOCK_TEXT_LIMIT =>
          /\ TextLen(text) = SLACK_BLOCK_TEXT_LIMIT
          /\ LastChar(text) # Ellipsis

PreviewTaskOver == variant = "preview" /\ tpc = "fulfilled" /\ tlocal # Undefined

\* some call to the endpoint came back with one of the results
EndedWith(endpoint, results) ==
    \E i \in EndpointCalls(endpoint) : slackCalls[i].result \in results

\* the uploads the task makes when nothing stops it: the body, when asked
\* for and readable, and the raw message, when asked for and not empty
WantsTxt == Options.uploadTxtBody /\ tlocal.bodyText = TRUE
WantsEml == Options.uploadRawEml /\ tlocal.rawBytes > 0

\* C36: a notification post that failed, by an ok:false answer or by a
\* raise, is followed by the body upload and the raw upload all the same,
\* and a failed body upload by the raw upload.
C36_UploadsSurviveFailures ==
    PreviewTaskOver =>
        /\ EndedWith("chat.postMessage", {"not_ok", "threw"}) =>
              /\ WantsTxt => EndpointCalls("uploadBytesToSlack.txt") # {}
              /\ WantsEml => EndpointCalls("uploadBytesToSlack.eml") # {}
        /\ EndedWith("uploadBytesToSlack.txt", {"not_ok", "threw"}) =>
              (WantsEml => EndpointCalls("uploadBytesToSlack.eml") # {})

\* ------------------------------------------------------------------ C37
\* the entries of the upload call's log for one phase
PhaseEntries(phase) == { i \in 1..Len(upLog) : upLog[i].phase = phase }

\* C37: within one upload call each phase is entered at most once, and the
\* HTTP request of the slot phase and of the finalize phase is sent at most
\* once, whatever came back for it.
C37_NoPhaseRequestTwice ==
    /\ \A i \in 1..Len(upLog) : Cardinality(PhaseEntries(upLog[i].phase)) = 1
    /\ upc \in {"slot", "finalize"} => Cardinality(EventsOf("request")) <= 1

\* ---------------------------------------------------------------- C38
\* the chunks of a stream one after the other, in the order of delivery
RECURSIVE Concatenation(_)
Concatenation(chunks) ==
    IF chunks = <<>> THEN <<>> ELSE Head(chunks) \o Concatenation(Tail(chunks))

RECURSIVE SumOfLengths(_)
SumOfLengths(chunks) ==
    IF chunks = <<>> THEN 0 ELSE Len(Head(chunks)) + SumOfLengths(Tail(chunks))

DrainedStream(raw) == raw.kind = "stream" /\ raw.ends = "done"

AbsentOrEmpty(raw) ==
    \/ raw.kind \in {"undefined", "null"}
    \/ raw.kind = "str" /\ raw.s = <<>>
    \/ raw.kind \in {"bytes", "arraybuffer"} /\ raw.data = <<>>
    \/ DrainedStream(raw) /\ Concatenation(raw.chunks) = <<>>

\* C38: a stream that delivers its chunks and then reports done is read as
\* the chunks one after the other in the order of delivery, as many bytes as
\* the chunks have together; an absent or empty raw body is read as no bytes
\* at all, and nothing is raised.
C38_ChunksInOrder ==
    rdpc = "done" =>
        /\ DrainedStream(rawBody) =>
               /\ rawResult = Returned(Bytes(Concatenation(rawBody.chunks)))
               /\ byteLength(rawResult.value) = SumOfLengths(rawBody.chunks)
        /\ AbsentOrEmpty(rawBody) => rawResult = Returned(Bytes(<<>>))

C38_Witness ==
    /\ rdpc = "done"
    /\ rawBody = Stream(<< <<2, 3>>, <<1>> >>, "done")
    /\ rawResult = Returned(Bytes(<<2, 3, 1>>))

\* ---------------------------------------------------------------- C39
Rejected(text) == \E n \in 1..Len(rejects) : rejects[n] = Reason(text)

NoCallAfter(pos) == \A k \in 1..Len(forwardCalls) : forwardCalls[k].pos <= pos

SomeBothFailed == \E pos \in 1..Len(Targets) : BothFailed(pos)

\* C39: once a target has failed its direct attempt and its retry, the
\* message is rejected and email() has returned; no call is ever issued for a
\* later target, and the targets before it stay delivered: nothing changes in
\* the forward calls or the rejections from then on.
C39_StopAtFirstDoubleFailure ==
    /\ [](IsForwarder =>
            \A pos \in 1..Len(Targets) :
                BothFailed(pos) =>
                    /\ hpc = "returned"
                    /\ Rejected("Unable to forward this email")
                    /\ NoCallAfter(pos)
                    /\ \A q \in 1..(pos - 1) : Delivered(q))
    /\ [][(IsForwarder /\ SomeBothFailed) =>
            (forwardCalls' = forwardCalls /\ rejects' = rejects /\ hpc' = hpc)]_vars

\* the first of two targets failed twice: the second was never tried
C39_Witness ==
    /\ IsForwarder
    /\ Len(Targets) = 2
    /\ BothFailed(1)
    /\ CallsAt(2) = {}
    /\ hpc = "returned"
    /\ tpc = "fulfilled"
    /\ Rejected("Unable to forward this email")

\* a delivered copy next to the rejection
C39_WitnessDelivered ==
    /\ IsForwarder
    /\ Delivered(1)
    /\ BothFailed(2)
    /\ forwardCalls[1].outcome = "ok"
    /\ tpc = "fulfilled"
    /\ Rejected("Unable to forward this email")

====
